---- MODULE Spec2Model ----
(***************************************************************************)
(* A model of dfu-core: the sans-I/O DFU / DfuSe download pipeline         *)
(* (download.rs, get_status.rs, lib.rs), the synchronous driver shell that *)
(* runs it (sync.rs) and the device the test-suite runs it against         *)
(* (tests/mock.rs, tests/download.rs).                                     *)
(*                                                                         *)
(* One behaviour of Spec is one call of DfuSync::download: the variable pc  *)
(* is the position of the shell inside that function.  One behaviour of    *)
(* SpecChunk is one call of DownloadChunk::download by a caller of the     *)
(* engine.                                                                 *)
(***************************************************************************)
EXTENDS Integers, Sequences, FiniteSets, TLC

(***************************************************************************)
(* Bounds of the model.                                                    *)
(***************************************************************************)
\* The longest firmware stream handed to download (bytes).
MaxFirmware == 13
\* The most GETSTATUS polls a device answers "busy" / "manifest" to after one
\* DNLOAD (MockIOInner::busy).
MaxBusy == 1
\* How many of the first commands of a download are kept in `head`.
HeadLen == 4
\* The longest chunk a caller of the engine hands to DownloadChunk::download.
MaxChunk == 8

Min(a, b) == IF a < b THEN a ELSE b

(***************************************************************************)
(* u32 / u16.  TLC's integers are 32-bit signed, so u32::MAX is stood for  *)
(* by the largest value TLC holds; checked_add is written so that it never *)
(* computes the overflowing sum.                                           *)
(***************************************************************************)
U32_MAX == (2^30 - 1) + 2^30
U16_MAX == 2^16 - 1

None == <<>>
Some(x) == <<x>>

\* u32::checked_add / u16::checked_add: None on overflow.
checked_add_u32(a, b) == IF a > U32_MAX - b THEN None ELSE Some(a + b)
checked_add_u16(a, b) == IF a > U16_MAX - b THEN None ELSE Some(a + b)

\* u32::to_le_bytes
to_le_bytes(x) ==
    << x % 256, (x \div 256) % 256, (x \div 65536) % 256, (x \div 16777216) % 256 >>

\* bytes::Buf::get_uint_le(3) on the three bytes b1 b2 b3
get_uint_le3(b1, b2, b3) == b1 + 256 * b2 + 65536 * b3

(***************************************************************************)
(* lib.rs: State and its u8 coding.                                        *)
(***************************************************************************)
AppIdle              == [tag |-> "AppIdle", n |-> 0]
AppDetach            == [tag |-> "AppDetach", n |-> 1]
DfuIdle              == [tag |-> "DfuIdle", n |-> 2]
DfuDnloadSync        == [tag |-> "DfuDnloadSync", n |-> 3]
DfuDnbusy            == [tag |-> "DfuDnbusy", n |-> 4]
DfuDnloadIdle        == [tag |-> "DfuDnloadIdle", n |-> 5]
DfuManifestSync      == [tag |-> "DfuManifestSync", n |-> 6]
DfuManifest          == [tag |-> "DfuManifest", n |-> 7]
DfuManifestWaitReset == [tag |-> "DfuManifestWaitReset", n |-> 8]
DfuUploadIdle        == [tag |-> "DfuUploadIdle", n |-> 9]
DfuError             == [tag |-> "DfuError", n |-> 10]
StateOther(b)        == [tag |-> "Other", n |-> b]

\* The match of GetStatusRecv::chain on the state byte.
StateOfByte(b) ==
    CASE b = 0 -> AppIdle
      [] b = 1 -> AppDetach
      [] b = 2 -> DfuIdle
      [] b = 3 -> DfuDnloadSync
      [] b = 4 -> DfuDnbusy
      [] b = 5 -> DfuDnloadIdle
      [] b = 6 -> DfuManifestSync
      [] b = 7 -> DfuManifest
      [] b = 8 -> DfuManifestWaitReset
      [] b = 9 -> DfuUploadIdle
      [] b = 10 -> DfuError
      [] OTHER -> StateOther(b)

\* impl From<State> for u8
ByteOfState(s) == s.n

\* The match of GetStatusRecv::chain on the status byte: 0x00 Ok,
\* 0x01..0x0f the fifteen error statuses, anything else Other(b).
StatusOfByte(b) ==
    IF b = 0 THEN [tag |-> "Ok", n |-> 0]
    ELSE IF b >= 1 /\ b <= 15 THEN [tag |-> "Err", n |-> b]
    ELSE [tag |-> "Other", n |-> b]

\* impl From<Status> for u8
ByteOfStatus(s) == s.n

(***************************************************************************)
(* Request codes.                                                          *)
(***************************************************************************)
REQUEST_TYPE  == 33
DFU_DNLOAD    == 1
DFU_GETSTATUS == 3
DFU_CLRSTATUS == 4

\* impl From<DownloadCommandErase> for [u8; 5]
DownloadCommandErase(addr) == <<65>> \o to_le_bytes(addr)
\* impl From<DownloadCommandSetAddress> for [u8; 5]
DownloadCommandSetAddress(addr) == <<33>> \o to_le_bytes(addr)

\* Result values of the model: Ok(v) and Err(e).
Ok(v) == [ok |-> TRUE, v |-> v]
Err(e) == [ok |-> FALSE, e |-> e]
InvalidState(got, expected) ==
    [error |-> "InvalidState", got |-> got, expected |-> expected]
ResponseTooShort(got, expected) ==
    [error |-> "ResponseTooShort", got |-> got, expected |-> expected]
Error(name) == [error |-> name]

(***************************************************************************)
(* The inputs of a download.                                               *)
(***************************************************************************)
\* wTransferSize of the functional descriptor.  tests/mock.rs uses 6; 4 is a
\* device whose transfer size is smaller than a GETSTATUS reply.
TransferSizes == {4, 6}

\* FunctionalDescriptor (the fields the download reads).
FunctionalDescriptors ==
    [manifestation_tolerant : BOOLEAN, will_detach : BOOLEAN,
     transfer_size : TransferSizes]

\* DfuProtocol: Dfu, or Dfuse { address, memory_layout } with the page sizes
\* of the layout (memory_layout::mem).
ProtocolDfu == [kind |-> "Dfu"]
ProtocolDfuse(address, layout) ==
    [kind |-> "Dfuse", address |-> address, memory_layout |-> layout]

\* The (protocol, DfuSansIo::override_address) pairs tried: plain DFU; DfuSe
\* at address 0 and at address 8 with room for every firmware; DfuSe whose
\* layout runs out after 8 bytes; DfuSe with the address overridden; DfuSe
\* at the last 3 bytes of the address space.
Targets ==
    { << ProtocolDfu, None >>,
      << ProtocolDfuse(0, <<4, 4, 8, 8>>), None >>,
      << ProtocolDfuse(8, <<4, 4, 8, 8>>), None >>,
      << ProtocolDfuse(0, <<4, 4>>), None >>,
      << ProtocolDfuse(0, <<4, 4, 8, 8>>), Some(16) >>,
      << ProtocolDfuse(U32_MAX - 2, <<4, 4>>), None >> }

\* The i-th byte of the firmware stream (i = 1, 2, ...): pairwise distinct,
\* and starting with the two bytes that open a DfuSe command block.
FirmwareByte(i) == CASE i = 1 -> 65 [] i = 2 -> 33 [] OTHER -> i
Firmware(n) == [i \in 1..n |-> FirmwareByte(i)]

\* The `length` handed to download beside a stream of n bytes: the stream's
\* length (download_from_slice, download_all), or a length of 4 whatever the
\* stream holds (download with a reader that ends early or late).
Lengths(n) == {n, 4}

\* poll timeouts a device reports (tests/mock.rs reports 10).
PollTimeouts == {0, 10}

(***************************************************************************)
(* lib.rs, DfuSansIo::download: the Start command, or NoSpaceLeft.         *)
(***************************************************************************)
\* A DfuSansIo::download that saturates the end position.
DfuSansIo_download_saturating(override, proto, len) ==
    IF proto.kind = "Dfu"
    THEN Ok([protocol |-> [kind |-> "Dfu"], end_pos |-> len])
    ELSE LET address == IF override = None THEN proto.address ELSE override[1]
             end == checked_add_u32(address, len)
         IN  Ok([protocol |-> [kind |-> "Dfuse",
                               address |-> address,
                               erased_pos |-> address,
                               address_set |-> FALSE,
                               memory_layout |-> proto.memory_layout],
                 end_pos |-> IF end = None THEN U32_MAX ELSE end[1]])

DfuSansIo_download(override, proto, len) ==
    IF proto.kind = "Dfu"
    THEN Ok([protocol |-> [kind |-> "Dfu"], end_pos |-> len])
    ELSE LET address == IF override = None THEN proto.address ELSE override[1]
             end == checked_add_u32(address, len)
         IN  IF end = None
             THEN Err(Error("NoSpaceLeft"))
             ELSE Ok([protocol |-> [kind |-> "Dfuse",
                                    address |-> address,
                                    erased_pos |-> address,
                                    address_set |-> FALSE,
                                    memory_layout |-> proto.memory_layout],
                      end_pos |-> end[1]])

(***************************************************************************)
(* get_status.rs                                                           *)
(***************************************************************************)
\* A GetStatus::get_status that sets the direction bit of bmRequestType.
GetStatus_get_status_in(buffer_len) ==
    [op |-> "read_control", request_type |-> REQUEST_TYPE + 128,
     request |-> DFU_GETSTATUS, value |-> 0, data |-> <<>>,
     buffer |-> buffer_len]

\* GetStatus::get_status on a buffer of buffer_len bytes.
GetStatus_get_status(buffer_len) ==
    [op |-> "read_control", request_type |-> REQUEST_TYPE,
     request |-> DFU_GETSTATUS, value |-> 0, data |-> <<>>,
     buffer |-> buffer_len]

\* A GetStatusRecv::chain that wants a reply of exactly 6 bytes.
GetStatusRecv_chain_exact(bytes) ==
    IF Len(bytes) # 6
    THEN Err(ResponseTooShort(Len(bytes), 6))
    ELSE Ok([status |-> StatusOfByte(bytes[1]),
             poll_timeout |-> get_uint_le3(bytes[2], bytes[3], bytes[4]),
             state |-> StateOfByte(bytes[5]),
             index |-> bytes[6]])

\* A GetStatusRecv::chain that raises on a status other than Ok.
GetStatusRecv_chain_raising(bytes) ==
    IF Len(bytes) < 6
    THEN Err(ResponseTooShort(Len(bytes), 6))
    ELSE IF bytes[1] # 0
    THEN Err(Error("StatusError"))
    ELSE Ok([status |-> StatusOfByte(bytes[1]),
             poll_timeout |-> get_uint_le3(bytes[2], bytes[3], bytes[4]),
             state |-> StateOfByte(bytes[5]),
             index |-> bytes[6]])

\* GetStatusRecv::chain up to the call of the chained command: the parsed
\* GetStatusMessage, or ResponseTooShort.
GetStatusRecv_chain(bytes) ==
    IF Len(bytes) < 6
    THEN Err(ResponseTooShort(Len(bytes), 6))
    ELSE Ok([status |-> StatusOfByte(bytes[1]),
             poll_timeout |-> get_uint_le3(bytes[2], bytes[3], bytes[4]),
             state |-> StateOfByte(bytes[5]),
             index |-> bytes[6]])

\* A ClearStatus::chain that clears whenever the device is not idle.
ClearStatus_chain_not_idle(msg) ==
    IF msg.state # DfuIdle
    THEN Some([op |-> "write_control", request_type |-> REQUEST_TYPE,
               request |-> DFU_CLRSTATUS, value |-> 0, data |-> <<>>])
    ELSE None

\* ClearStatus::chain: the CLRSTATUS transfer when the state is DfuError,
\* no transfer otherwise.
ClearStatus_chain(msg) ==
    IF msg.state = DfuError
    THEN Some([op |-> "write_control", request_type |-> REQUEST_TYPE,
               request |-> DFU_CLRSTATUS, value |-> 0, data |-> <<>>])
    ELSE None

\* State::for_status
for_status(state) ==
    CASE state = DfuManifestSync -> DfuManifest
      [] state = DfuDnloadSync -> DfuDnbusy
      [] OTHER -> state

\* A WaitState::new that starts with a poll timeout of 10 ms.
WaitState_new_ten(intermediate, state) ==
    [intermediate |-> intermediate,
     state |-> state, end |-> FALSE, poll_timeout |-> 10, in_manifest |-> FALSE]

\* A WaitState::new that takes the state waited for as reached.
WaitState_new_ended(intermediate, state) ==
    [intermediate |-> intermediate,
     state |-> state, end |-> TRUE, poll_timeout |-> 0, in_manifest |-> FALSE]

\* WaitState::new.  download.rs hands it the intermediate state and the
\* state waited for; the WaitState of get_status.rs acts on the state
\* waited for only, and `intermediate` is carried along unread.
WaitState_new(intermediate, state) ==
    [intermediate |-> intermediate,
     state |-> state, end |-> FALSE, poll_timeout |-> 0, in_manifest |-> FALSE]

\* A WaitState::next that takes a WaitState that has seen no reply in
\* manifest as arrived.
WaitState_next_arrived(w, descriptor) ==
    IF w.end \/ ~w.in_manifest
    THEN [step |-> "Break"]
    ELSE IF ~descriptor.manifestation_tolerant
    THEN [step |-> "ManifestWaitReset", reset |-> ~descriptor.will_detach]
    ELSE [step |-> "Wait", poll_timeout |-> w.poll_timeout]

\* WaitState::next: the kind of Step, and the poll timeout of a Wait.
WaitState_next(w, descriptor) ==
    IF w.end
    THEN [step |-> "Break"]
    ELSE IF w.in_manifest /\ ~descriptor.manifestation_tolerant
    THEN [step |-> "ManifestWaitReset", reset |-> ~descriptor.will_detach]
    ELSE [step |-> "Wait", poll_timeout |-> w.poll_timeout]

\* A WaitState::chain that keeps the poll timeout it was built with.
WaitState_chain_stale(w, msg) ==
    [intermediate |-> w.intermediate,
     state |-> w.state,
     end |-> (msg.state = w.state),
     poll_timeout |-> w.poll_timeout,
     in_manifest |-> (msg.state = DfuManifest)]

\* WaitState::chain
WaitState_chain(w, msg) ==
    [intermediate |-> w.intermediate,
     state |-> w.state,
     end |-> (msg.state = w.state),
     poll_timeout |-> msg.poll_timeout,
     in_manifest |-> (msg.state = DfuManifest)]

(***************************************************************************)
(* download.rs                                                             *)
(***************************************************************************)
\* A Start::chain that starts the block numbers of both protocols at 0.
Start_chain_zero(start, msg) ==
    IF msg.state = DfuIdle
    THEN Ok([protocol |-> start.protocol,
             end_pos |-> start.end_pos,
             copied_pos |-> IF start.protocol.kind = "Dfu" THEN 0
                            ELSE start.protocol.address,
             block_num |-> 0,
             eof |-> FALSE])
    ELSE Err(InvalidState(msg.state, DfuIdle))

\* A Start::chain that numbers the DfuSe data blocks from 1.
Start_chain_block_one(start, msg) ==
    IF msg.state = DfuIdle
    THEN Ok([protocol |-> start.protocol,
             end_pos |-> start.end_pos,
             copied_pos |-> IF start.protocol.kind = "Dfu" THEN 0
                            ELSE start.protocol.address,
             block_num |-> IF start.protocol.kind = "Dfu" THEN 0 ELSE 1,
             eof |-> FALSE])
    ELSE Err(InvalidState(msg.state, DfuIdle))

\* A Start::chain that also starts from DfuDnloadIdle.
Start_chain_lenient(start, msg) ==
    IF msg.state \in {DfuIdle, DfuDnloadIdle}
    THEN Ok([protocol |-> start.protocol,
             end_pos |-> start.end_pos,
             copied_pos |-> IF start.protocol.kind = "Dfu" THEN 0
                            ELSE start.protocol.address,
             block_num |-> IF start.protocol.kind = "Dfu" THEN 0 ELSE 2,
             eof |-> FALSE])
    ELSE Err(InvalidState(msg.state, DfuIdle))

\* Start::chain
Start_chain(start, msg) ==
    IF msg.state = DfuIdle
    THEN Ok([protocol |-> start.protocol,
             end_pos |-> start.end_pos,
             copied_pos |-> IF start.protocol.kind = "Dfu" THEN 0
                            ELSE start.protocol.address,
             block_num |-> IF start.protocol.kind = "Dfu" THEN 0 ELSE 2,
             eof |-> FALSE])
    ELSE Err(InvalidState(msg.state, DfuIdle))

\* A DownloadLoop::next that erases up to and including the page at end_pos.
DownloadLoop_next_erase_through(dl, descriptor) ==
    IF dl.eof
    THEN IF ~descriptor.manifestation_tolerant /\ ~descriptor.will_detach
         THEN "UsbReset"
         ELSE "Break"
    ELSE IF dl.protocol.kind = "Dfuse" /\ dl.protocol.erased_pos <= dl.end_pos
    THEN "Erase"
    ELSE IF dl.protocol.kind = "Dfuse" /\ ~dl.protocol.address_set
    THEN "SetAddress"
    ELSE "DownloadChunk"

\* A DownloadLoop::next that asks for the reset whenever the device will not
\* detach.
DownloadLoop_next_detach(dl, descriptor) ==
    IF dl.eof
    THEN IF ~descriptor.will_detach THEN "UsbReset" ELSE "Break"
    ELSE IF dl.protocol.kind = "Dfuse" /\ dl.protocol.erased_pos < dl.end_pos
    THEN "Erase"
    ELSE IF dl.protocol.kind = "Dfuse" /\ ~dl.protocol.address_set
    THEN "SetAddress"
    ELSE "DownloadChunk"

\* A DownloadLoop::next that looks at the protocol before it looks at eof.
DownloadLoop_next_erase_first(dl, descriptor) ==
    IF dl.protocol.kind = "Dfuse" /\ dl.protocol.erased_pos < dl.end_pos
    THEN "Erase"
    ELSE IF dl.eof
    THEN IF ~descriptor.manifestation_tolerant /\ ~descriptor.will_detach
         THEN "UsbReset"
         ELSE "Break"
    ELSE IF dl.protocol.kind = "Dfuse" /\ ~dl.protocol.address_set
    THEN "SetAddress"
    ELSE "DownloadChunk"

\* A DownloadLoop::next that sets the address before it erases.
DownloadLoop_next_address_first(dl, descriptor) ==
    IF dl.eof
    THEN IF ~descriptor.manifestation_tolerant /\ ~descriptor.will_detach
         THEN "UsbReset"
         ELSE "Break"
    ELSE IF dl.protocol.kind = "Dfuse" /\ ~dl.protocol.address_set
    THEN "SetAddress"
    ELSE IF dl.protocol.kind = "Dfuse" /\ dl.protocol.erased_pos < dl.end_pos
    THEN "Erase"
    ELSE "DownloadChunk"

\* DownloadLoop::next: the kind of Step.
DownloadLoop_next(dl, descriptor) ==
    IF dl.eof
    THEN IF ~descriptor.manifestation_tolerant /\ ~descriptor.will_detach
         THEN "UsbReset"
         ELSE "Break"
    ELSE IF dl.protocol.kind = "Dfuse" /\ dl.protocol.erased_pos < dl.end_pos
    THEN "Erase"
    ELSE IF dl.protocol.kind = "Dfuse" /\ ~dl.protocol.address_set
    THEN "SetAddress"
    ELSE "DownloadChunk"

\* A DNLOAD control transfer.
Dnload(value, data) ==
    [op |-> "write_control", request_type |-> REQUEST_TYPE,
     request |-> DFU_DNLOAD, value |-> value, data |-> data]

\* An ErasePage::erase that leaves the address marked as set.
ErasePage_erase_address_set(dl) ==
    IF dl.protocol.memory_layout = <<>>
    THEN Err(Error("NoSpaceLeft"))
    ELSE LET page_size == Head(dl.protocol.memory_layout)
             rest_memory_layout == Tail(dl.protocol.memory_layout)
             erased == checked_add_u32(dl.protocol.erased_pos, page_size)
         IN  IF erased = None
             THEN Err(Error("EraseLimitReached"))
             ELSE Ok([wait |-> WaitState_new(DfuDnbusy, DfuDnloadIdle),
                      next |-> [dl EXCEPT !.protocol.erased_pos = erased[1],
                                          !.protocol.memory_layout = rest_memory_layout,
                                          !.protocol.address_set = TRUE,
                                          !.eof = FALSE],
                      control |-> Dnload(0, DownloadCommandErase(dl.protocol.erased_pos))])

\* An ErasePage::erase whose erased_pos wraps past the largest u32.
ErasePage_erase_wrapping(dl) ==
    IF dl.protocol.memory_layout = <<>>
    THEN Err(Error("NoSpaceLeft"))
    ELSE LET page_size == Head(dl.protocol.memory_layout)
             rest_memory_layout == Tail(dl.protocol.memory_layout)
             erased == IF page_size > U32_MAX - dl.protocol.erased_pos
                       THEN page_size - (U32_MAX - dl.protocol.erased_pos) - 1
                       ELSE dl.protocol.erased_pos + page_size
         IN  Ok([wait |-> WaitState_new(DfuDnbusy, DfuDnloadIdle),
                 next |-> [dl EXCEPT !.protocol.erased_pos = erased,
                                     !.protocol.memory_layout = rest_memory_layout,
                                     !.eof = FALSE],
                 control |-> Dnload(0, DownloadCommandErase(dl.protocol.erased_pos))])

\* An ErasePage::erase that sends the position after the page.
ErasePage_erase_after(dl) ==
    IF dl.protocol.memory_layout = <<>>
    THEN Err(Error("NoSpaceLeft"))
    ELSE LET page_size == Head(dl.protocol.memory_layout)
             rest_memory_layout == Tail(dl.protocol.memory_layout)
             erased == checked_add_u32(dl.protocol.erased_pos, page_size)
         IN  IF erased = None
             THEN Err(Error("EraseLimitReached"))
             ELSE Ok([wait |-> WaitState_new(DfuDnbusy, DfuDnloadIdle),
                      next |-> [dl EXCEPT !.protocol.erased_pos = erased[1],
                                          !.protocol.memory_layout = rest_memory_layout,
                                          !.eof = FALSE],
                      control |-> Dnload(0, DownloadCommandErase(erased[1]))])

\* ErasePage::erase: the next WaitState and DownloadLoop and the transfer,
\* or NoSpaceLeft / EraseLimitReached.
ErasePage_erase(dl) ==
    IF dl.protocol.memory_layout = <<>>
    THEN Err(Error("NoSpaceLeft"))
    ELSE LET page_size == Head(dl.protocol.memory_layout)
             rest_memory_layout == Tail(dl.protocol.memory_layout)
             erased == checked_add_u32(dl.protocol.erased_pos, page_size)
         IN  IF erased = None
             THEN Err(Error("EraseLimitReached"))
             ELSE Ok([wait |-> WaitState_new(DfuDnbusy, DfuDnloadIdle),
                      next |-> [dl EXCEPT !.protocol.erased_pos = erased[1],
                                          !.protocol.memory_layout = rest_memory_layout,
                                          !.eof = FALSE],
                      control |-> Dnload(0, DownloadCommandErase(dl.protocol.erased_pos))])

\* A SetAddress::set_address that counts the command as a block.
SetAddress_set_address_counted(dl) ==
    Ok([wait |-> WaitState_new(DfuDnbusy, DfuDnloadIdle),
        next |-> [dl EXCEPT !.protocol.address_set = TRUE, !.eof = FALSE,
                            !.block_num = @ + 1],
        control |-> Dnload(0, DownloadCommandSetAddress(dl.copied_pos))])

\* A SetAddress::set_address that sends the position erased up to.
SetAddress_set_address_erased(dl) ==
    Ok([wait |-> WaitState_new(DfuDnbusy, DfuDnloadIdle),
        next |-> [dl EXCEPT !.protocol.address_set = TRUE, !.eof = FALSE],
        control |-> Dnload(0, DownloadCommandSetAddress(dl.protocol.erased_pos))])

\* SetAddress::set_address
SetAddress_set_address(dl) ==
    Ok([wait |-> WaitState_new(DfuDnbusy, DfuDnloadIdle),
        next |-> [dl EXCEPT !.protocol.address_set = TRUE, !.eof = FALSE],
        control |-> Dnload(0, DownloadCommandSetAddress(dl.copied_pos))])

\* A DownloadChunk::download that waits for DfuIdle after the last DNLOAD
\* whatever the descriptor says.
DownloadChunk_states_tolerant(bytes, descriptor) ==
    IF bytes = <<>>
    THEN <<DfuManifest, DfuIdle>>
    ELSE <<DfuDnbusy, DfuDnloadIdle>>

\* The (intermediate, next_state) pair DownloadChunk::download waits with.
DownloadChunk_states(bytes, descriptor) ==
    IF bytes = <<>>
    THEN IF descriptor.manifestation_tolerant
         THEN <<DfuManifest, DfuIdle>>
         ELSE <<DfuManifest, DfuManifest>>
    ELSE <<DfuDnbusy, DfuDnloadIdle>>

\* A DownloadChunk::download that sends the chunk whole.
DownloadChunk_download_whole(dl, bytes, descriptor) ==
    LET len == Len(bytes)
        states == DownloadChunk_states(bytes, descriptor)
        copied == checked_add_u32(dl.copied_pos, len)
        block == checked_add_u16(dl.block_num, 1)
    IN  IF copied = None
        THEN Err(Error("MaximumTransferSizeExceeded"))
        ELSE IF block = None
        THEN Err(Error("MaximumChunksExceeded"))
        ELSE Ok([wait |-> WaitState_new(states[1], states[2]),
                 next |-> [dl EXCEPT !.copied_pos = copied[1],
                                     !.block_num = block[1],
                                     !.eof = (bytes = <<>>)],
                 control |-> Dnload(dl.block_num, SubSeq(bytes, 1, len))])

\* A DownloadChunk::download that takes a chunk shorter than transfer_size
\* for the end of the stream.
DownloadChunk_download_short_eof(dl, bytes, descriptor) ==
    LET len == Min(Len(bytes), descriptor.transfer_size)
        states == DownloadChunk_states(bytes, descriptor)
        copied == checked_add_u32(dl.copied_pos, len)
        block == checked_add_u16(dl.block_num, 1)
    IN  IF copied = None
        THEN Err(Error("MaximumTransferSizeExceeded"))
        ELSE IF block = None
        THEN Err(Error("MaximumChunksExceeded"))
        ELSE Ok([wait |-> WaitState_new(states[1], states[2]),
                 next |-> [dl EXCEPT !.copied_pos = copied[1],
                                     !.block_num = block[1],
                                     !.eof = (len < descriptor.transfer_size)],
                 control |-> Dnload(dl.block_num, SubSeq(bytes, 1, len))])

\* A DownloadChunk::download whose counters wrap past their largest value.
DownloadChunk_download_wrapping(dl, bytes, descriptor) ==
    LET len == Min(Len(bytes), descriptor.transfer_size)
        states == DownloadChunk_states(bytes, descriptor)
        copied == IF len > U32_MAX - dl.copied_pos
                  THEN len - (U32_MAX - dl.copied_pos) - 1
                  ELSE dl.copied_pos + len
        block == (dl.block_num + 1) % (U16_MAX + 1)
    IN  Ok([wait |-> WaitState_new(states[1], states[2]),
            next |-> [dl EXCEPT !.copied_pos = copied,
                                !.block_num = block,
                                !.eof = (bytes = <<>>)],
            control |-> Dnload(dl.block_num, SubSeq(bytes, 1, len))])

\* DownloadChunk::download
DownloadChunk_download(dl, bytes, descriptor) ==
    LET len == Min(Len(bytes), descriptor.transfer_size)
        states == DownloadChunk_states(bytes, descriptor)
        copied == checked_add_u32(dl.copied_pos, len)
        block == checked_add_u16(dl.block_num, 1)
    IN  IF copied = None
        THEN Err(Error("MaximumTransferSizeExceeded"))
        ELSE IF block = None
        THEN Err(Error("MaximumChunksExceeded"))
        ELSE Ok([wait |-> WaitState_new(states[1], states[2]),
                 next |-> [dl EXCEPT !.copied_pos = copied[1],
                                     !.block_num = block[1],
                                     !.eof = (bytes = <<>>)],
                 control |-> Dnload(dl.block_num, SubSeq(bytes, 1, len))])

(***************************************************************************)
(* sync.rs: Buffer                                                         *)
(***************************************************************************)
\* A fill_buf that writes each read at the front of the buffer.
Buffer_read_front(b, bytes) == bytes \o b

\* Buffer::fill_buf, `let dst = &mut self.buf[self.level..]; read(dst);
\* self.level += r`: the filled part after a read that returned `bytes`.
Buffer_read(b, bytes) == b \o bytes

\* A fill_buf that reads once instead of looping.
Buffer_fill_once(r, level, size) == FALSE

\* Buffer::fill_buf: whether its loop goes round again after a read of r
\* bytes left the level at `level` (`while self.level < self.buf.len()`,
\* `if r == 0 { break }`).
Buffer_fill_more(r, level, size) == r # 0 /\ level < size

\* Buffer::consume on the filled part buf[0..level] of the buffer.
Buffer_consume(b, amt) ==
    IF amt >= Len(b) THEN <<>> ELSE SubSeq(b, amt + 1, Len(b))

(***************************************************************************)
(* The reader: any std::io::Read over the firmware.  read(dst) returns 0   *)
(* at the end of the stream and otherwise any count from 1 to what fits    *)
(* (tests/download.rs, TestCursor::read, is one such reader).              *)
(***************************************************************************)
ReadResults(room, remaining) ==
    IF remaining = 0 \/ room = 0 THEN {0} ELSE 1..Min(room, remaining)

(***************************************************************************)
(* The device: tests/mock.rs, with the number of busy polls after a DNLOAD *)
(* and the poll timeout left open, a start state other than DfuIdle, and   *)
(* faults: a DNLOAD that fails (the device enters DfuError) and a          *)
(* CLRSTATUS that does not clear.                                          *)
(***************************************************************************)
DeviceStartStates == {DfuIdle, DfuError, AppIdle, DfuDnloadIdle}

\* MockIOBuilder::build: the device before the download.
\* `status` is the status byte of its replies (MockIO::status, Status::Ok),
\* `reply_lens` the lengths its GETSTATUS replies can have (6 for the mock)
\* and `short_writes` whether it may accept less than a whole DNLOAD (the
\* mock accepts all of it).
DeviceInit(state) ==
    [state |-> state, busy |-> 0, download |-> <<>>, writes |-> 0,
     erased |-> <<>>, erase_done |-> 0, unerased |-> {},
     was_reset |-> FALSE, faulted |-> FALSE,
     status |-> 0, reply_lens |-> {6}, short_writes |-> FALSE]

\* MockIO::status_request into a buffer of buflen bytes by a device that
\* answers with n bytes: the bytes read.  A reply longer than 6 bytes goes
\* on with bytes that are no part of the status.
status_request(d, state, timeout, buflen, n) ==
    SubSeq(<< d.status, timeout % 256, (timeout \div 256) % 256,
              (timeout \div 65536) % 256, ByteOfState(state), 0, 170, 85 >>,
           1, Min(n, buflen))

\* MockIO::read_control for DFU_GETSTATUS: the (device after, state reported)
\* pairs possible.  Besides the mock's script a device may fail the
\* operation in progress, and a busy device may report the state it is in
\* (DfuDnloadSync, DfuManifestSync) instead of the state the request moves
\* it to: the devices the comment on State::for_status is about.
DeviceStatus(d, descriptor) ==
    LET scripted ==
          CASE d.state = DfuDnloadSync ->
                 IF d.busy > 0
                 THEN << [d EXCEPT !.busy = @ - 1], DfuDnbusy >>
                 ELSE << [d EXCEPT !.state = DfuDnloadIdle,
                                   !.erase_done = Len(d.erased)],
                         DfuDnloadIdle >>
            [] d.state = DfuManifestSync ->
                 IF ~descriptor.manifestation_tolerant
                 THEN << [d EXCEPT !.state = DfuManifestWaitReset], DfuManifest >>
                 ELSE IF d.busy > 0
                 THEN << [d EXCEPT !.busy = @ - 1], DfuManifest >>
                 ELSE << [d EXCEPT !.state = DfuIdle], DfuIdle >>
            [] OTHER -> << d, d.state >>
        failed ==
          IF d.state = DfuDnloadSync
          THEN { << [d EXCEPT !.state = DfuError, !.faulted = TRUE], DfuError >> }
          ELSE {}
        literal ==
          IF d.busy > 0 /\ (d.state = DfuDnloadSync
                            \/ (d.state = DfuManifestSync
                                /\ descriptor.manifestation_tolerant))
          THEN { << [d EXCEPT !.busy = @ - 1], d.state >> }
          ELSE {}
    IN  {scripted} \cup failed \cup literal

\* The replies read_control can give to a GETSTATUS with a buffer of buflen
\* bytes: the device after it and the bytes read.
DeviceGetStatus(d, descriptor, buflen) ==
    { [dev |-> o[1], bytes |-> status_request(d, o[2], t[1], buflen, t[2])] :
        o \in DeviceStatus(d, descriptor), t \in PollTimeouts \X d.reply_lens }

\* MockIO::erase_page: the size of the page that starts at device offset
\* `offset` of the layout, 0 when no page starts there.
RECURSIVE page_at(_, _)
page_at(layout, offset) ==
    IF layout = <<>> THEN 0
    ELSE IF offset = 0 THEN Head(layout)
    ELSE IF offset >= Head(layout) THEN page_at(Tail(layout), offset - Head(layout))
    ELSE 0

\* MockIO::check_erasures: the device offsets start..end-1 that lie in no
\* page whose erase has completed.
NotErased(d, start, end) ==
    { a \in start..(end - 1) :
        ~ \E i \in 1..d.erase_done :
            d.erased[i][1] <= a /\ a < d.erased[i][1] + d.erased[i][2] }

\* MockIO::download_request_dfu
download_request_dfu(d, buffer) ==
    [d EXCEPT !.writes = @ + 1, !.download = @ \o buffer]

\* MockIO::download_request_dfuse; `base` is the address the device's
\* memory starts at (MockIO::translate_address).  Where the mock panics (a
\* command block it cannot read, a SET_ADDRESS that is not where the data
\* stands, block 1) the device is marked faulted.
download_request_dfuse(d, layout, base, blocknum, buffer) ==
    LET addr == get_uint_le3(buffer[2], buffer[3], buffer[4])
                + 16777216 * buffer[5] - base
    IN  IF blocknum = 0
        THEN IF Len(buffer) < 5 \/ buffer[1] \notin {33, 65}
             THEN [d EXCEPT !.faulted = TRUE]
             ELSE IF buffer[1] = 33
             THEN [d EXCEPT !.faulted = (addr # Len(d.download))]
             ELSE [d EXCEPT !.erased = Append(@, << addr, page_at(layout, addr) >>)]
        ELSE IF blocknum = 1
        THEN [d EXCEPT !.faulted = TRUE]
        ELSE download_request_dfu(
               [d EXCEPT !.unerased = @ \cup
                   NotErased(d, Len(d.download), Len(d.download) + Len(buffer))],
               buffer)

\* MockIO::write_control for DFU_DNLOAD (and CLRSTATUS, which the mock does
\* not know: DfuError is left for DfuIdle, or is not): the devices possible
\* after it.
DeviceWrite(d, proto, base, control) ==
    IF control.request = DFU_CLRSTATUS
    THEN IF d.state = DfuError
         THEN { [d EXCEPT !.state = DfuIdle], [d EXCEPT !.faulted = TRUE] }
         ELSE { d }
    ELSE IF d.state \notin {DfuIdle, DfuDnloadIdle}
    THEN { [d EXCEPT !.state = DfuError, !.faulted = TRUE] }
    ELSE IF control.data = <<>>
    THEN IF d.state # DfuDnloadIdle
         THEN { [d EXCEPT !.state = DfuError, !.faulted = TRUE] }
         ELSE { [d EXCEPT !.state = DfuManifestSync, !.busy = b] :
                  b \in 0..MaxBusy }
    ELSE LET after == IF proto.kind = "Dfu"
                      THEN download_request_dfu(d, control.data)
                      ELSE download_request_dfuse(d, proto.memory_layout, base,
                                                  control.value, control.data)
         IN  IF after.faulted
             THEN { [after EXCEPT !.state = DfuError] }
             ELSE { [after EXCEPT !.state = DfuDnloadSync, !.busy = b] :
                      b \in 0..MaxBusy }

(***************************************************************************)
(* The state.                                                              *)
(***************************************************************************)
VARIABLES
    descriptor,        \* io.functional_descriptor()
    protocol,          \* io.protocol()
    override_address,  \* DfuSansIo::override_address
    length,            \* the `length` handed to download
    data,              \* the reader's stream (TestCursor::data)
    offset,            \* the reader's position (TestCursor::offset)
    buf,               \* Buffer: the filled part buf[0..level]
    pc,                \* where DfuSync::download stands
    start,             \* download::Start, built by DfuSansIo::download
    control,           \* the Option<control> ClearStatus::chain returned
    download_loop,     \* the DownloadLoop (the WaitState's chained command)
    wait,              \* the WaitState being waited with, None outside one
    result,            \* None while running, then Ok(()) or Err(e)
    dev,               \* the device
    dnloads,           \* history: every DNLOAD transfer issued, in order
    head,              \* history: the first HeadLen transfers and resets
    last,              \* history: the last transfer or reset issued
    counts,            \* history: how many CLRSTATUS and USB resets were issued
    session,           \* history: the polls of the current WaitState
    seen               \* history: the states the GETSTATUS replies delivered

inputs == << descriptor, protocol, override_address, length, data >>
vars == << descriptor, protocol, override_address, length, data, offset, buf,
           pc, start, control, download_loop, wait, result, dev, dnloads,
           head, last, counts, session, seen >>

\* No reply yet: `preroll` holds the states the replies of the pre-roll
\* delivered, `raw` the state byte of the last reply and `state` the state
\* GetStatusRecv::chain made of it, `poll_timeout` the poll timeout it
\* made of the last reply.
NoneSeen == [preroll |-> <<>>, raw |-> None, state |-> None,
             status |-> None, len |-> None, poll_timeout |-> None]

\* The history after a reply of `bytes` that parsed to the message m.
Seen(bytes, m, inPreroll) ==
    [preroll |-> IF m.ok /\ inPreroll THEN Append(seen.preroll, m.v.state)
                 ELSE seen.preroll,
     raw |-> IF Len(bytes) >= 6 THEN Some(bytes[5]) ELSE seen.raw,
     state |-> IF m.ok THEN Some(m.v.state) ELSE seen.state,
     status |-> IF Len(bytes) >= 6 THEN Some(bytes[1]) ELSE seen.status,
     len |-> Some(Len(bytes)),
     poll_timeout |-> IF m.ok THEN Some(m.v.poll_timeout) ELSE seen.poll_timeout]

NoSession == [polls |-> 0, slept |-> None, prev_timeout |-> None,
              reply_timeout |-> None]

\* The address the download starts at (DfuSansIo::download: override, else
\* the protocol's), 0 for plain DFU.
StartAddress ==
    IF protocol.kind = "Dfu" THEN 0
    ELSE IF override_address = None THEN protocol.address
    ELSE override_address[1]

Init ==
    /\ descriptor \in FunctionalDescriptors
    /\ \E t \in Targets : protocol = t[1] /\ override_address = t[2]
    /\ \E n \in 0..MaxFirmware :
         /\ data = Firmware(n)
         /\ length \in Lengths(n)
    /\ offset = 0
    /\ buf = <<>>
    /\ pc = "idle"
    /\ start = None
    /\ control = None
    /\ download_loop = None
    /\ wait = None
    /\ result = None
    /\ dev \in { DeviceInit(s) : s \in DeviceStartStates }
    /\ dnloads = <<>>
    /\ head = <<>>
    /\ last = None
    /\ counts = [clr_status |-> 0, usb_reset |-> 0]
    /\ session = NoSession
    /\ seen = NoneSeen

\* Recording a transfer (or reset) c in the histories.
Issue(c) ==
    /\ head' = IF Len(head) < HeadLen THEN Append(head, c) ELSE head
    /\ last' = Some(c)
    /\ dnloads' = IF c.op = "write_control" /\ c.request = DFU_DNLOAD
                  THEN Append(dnloads, c) ELSE dnloads
    /\ counts' = [clr_status |-> counts.clr_status +
                     (IF c.op = "write_control" /\ c.request = DFU_CLRSTATUS
                      THEN 1 ELSE 0),
                  usb_reset |-> counts.usb_reset +
                     (IF c.op = "usb_reset" THEN 1 ELSE 0)]
NoIssue == UNCHANGED << head, last, dnloads, counts >>

\* A download that keeps going where it is after r.
Return_retry(r) == result' = r /\ pc' = pc

\* download returns r.
Return(r) == result' = r /\ pc' = "done"

(***************************************************************************)
(* sync.rs, DfuSync::download.                                             *)
(***************************************************************************)
\* download is called: Buffer::new(transfer_size, reader).
Download ==
    /\ pc = "idle"
    /\ pc' = "fill_first"
    /\ UNCHANGED << inputs, seen, offset, buf, start, control, download_loop, wait,
                    result, dev, session >>
    /\ NoIssue

\* Buffer::fill_buf, one turn of its loop: one read of the reader.  The
\* loop is left when the read returns 0 or the buffer is full.
FillBuf ==
    /\ pc \in {"fill_first", "fill_chunk"}
    /\ LET size == descriptor.transfer_size
           after == IF pc = "fill_first" THEN "download" ELSE "chunk"
       IN  IF Len(buf) < size
           THEN \E r \in ReadResults(size - Len(buf), Len(data) - offset) :
                  /\ buf' = Buffer_read(buf, SubSeq(data, offset + 1, offset + r))
                  /\ offset' = offset + r
                  /\ pc' = IF Buffer_fill_more(r, Len(buf) + r, size)
                           THEN pc ELSE after
           ELSE /\ pc' = after
                /\ UNCHANGED << buf, offset >>
    /\ UNCHANGED << inputs, seen, start, control, download_loop, wait, result, dev,
                    session >>
    /\ NoIssue

\* An early return that comes after `self.dfu.download(protocol, length)?`.
EarlyReturn_validated ==
    /\ pc = "download"
    /\ buf = <<>>
    /\ LET r == DfuSansIo_download(override_address, protocol, length)
       IN  IF r.ok THEN Return(Ok(<<>>)) ELSE Return(Err(r.e))
    /\ UNCHANGED << inputs, seen, offset, buf, start, control, download_loop, wait,
                    dev, session >>
    /\ NoIssue

\* `if buffer.is_empty() { return Ok(()) }`
EarlyReturn ==
    /\ pc = "download"
    /\ buf = <<>>
    /\ Return(Ok(<<>>))
    /\ UNCHANGED << inputs, seen, offset, buf, start, control, download_loop, wait,
                    dev, session >>
    /\ NoIssue

\* `self.dfu.download(self.io.protocol(), length)?`
DfuDownload ==
    /\ pc = "download"
    /\ buf # <<>>
    /\ LET r == DfuSansIo_download(override_address, protocol, length)
       IN  IF r.ok
           THEN start' = r.v /\ pc' = "preroll1" /\ UNCHANGED result
           ELSE Return(Err(r.e)) /\ UNCHANGED start
    /\ UNCHANGED << inputs, seen, offset, buf, control, download_loop, wait, dev,
                    session >>
    /\ NoIssue

\* The first GETSTATUS and ClearStatus::chain on its reply.  The buffer read
\* into is self.buffer, of transfer_size bytes: with fewer than 6 the
\* debug_assert of GetStatus::get_status panics in a debug build.
PrerollGetStatus ==
    /\ pc = "preroll1"
    /\ \/ /\ descriptor.transfer_size < 6
          /\ Return(Err(Error("panic")))
          /\ UNCHANGED << control, dev, seen >>
          /\ NoIssue
       \/ \E rep \in DeviceGetStatus(dev, descriptor, descriptor.transfer_size) :
            LET m == GetStatusRecv_chain(rep.bytes)
            IN  /\ Issue(GetStatus_get_status(descriptor.transfer_size))
                /\ dev' = rep.dev
                /\ seen' = Seen(rep.bytes, m, TRUE)
                /\ IF m.ok
                   THEN /\ control' = ClearStatus_chain(m.v)
                        /\ pc' = "clear"
                        /\ UNCHANGED result
                   ELSE Return(Err(m.e)) /\ UNCHANGED control
    /\ UNCHANGED << inputs, offset, buf, start, download_loop, wait, session >>

\* `if let Some(control) = control { control.execute(&self.io)?; }`, the
\* second GETSTATUS and Start::chain on its reply.
ClearStatus ==
    /\ pc = "clear"
    /\ control # None
    /\ Issue(control[1])
    /\ dev' \in DeviceWrite(dev, protocol, StartAddress, control[1])
    /\ control' = None
    /\ UNCHANGED << inputs, seen, offset, buf, pc, start, download_loop, wait, result,
                    session >>

\* A pre-roll that goes without the second GETSTATUS when there was nothing
\* to clear, and starts the loop from the first reply.
StartGetStatus_skipped ==
    /\ pc = "clear"
    /\ control = None
    /\ LET dl == Start_chain(start, [state |-> dev.state])
       IN  IF dl.ok
           THEN download_loop' = dl.v /\ pc' = "loop" /\ UNCHANGED result
           ELSE Return(Err(dl.e)) /\ UNCHANGED download_loop
    /\ UNCHANGED << inputs, seen, offset, buf, start, control, wait, session, dev >>
    /\ NoIssue

StartGetStatus ==
    /\ pc = "clear"
    /\ control = None
    /\ \E rep \in DeviceGetStatus(dev, descriptor, descriptor.transfer_size) :
         LET m == GetStatusRecv_chain(rep.bytes)
             dl == Start_chain(start, m.v)
         IN  /\ Issue(GetStatus_get_status(descriptor.transfer_size))
             /\ dev' = rep.dev
             /\ seen' = Seen(rep.bytes, m, TRUE)
             /\ IF ~m.ok
                THEN Return(Err(m.e)) /\ UNCHANGED download_loop
                ELSE IF ~dl.ok
                THEN Return(Err(dl.e)) /\ UNCHANGED download_loop
                ELSE /\ download_loop' = dl.v
                     /\ pc' = "loop"
                     /\ UNCHANGED result
    /\ UNCHANGED << inputs, offset, buf, start, control, wait, session >>

\* What write_control returns for a payload of len bytes: the bytes written.
WriteResults(d, len) == IF d.short_writes /\ len > 0 THEN 1..len ELSE {len}

\* The part of the transfer the device took when write_control returned n.
Accepted(c, n) == [c EXCEPT !.data = SubSeq(c.data, 1, n)]

\* A step of the download loop that issues the DNLOAD of r (the Ok value of
\* erase / set_address / download) and goes on to wait_status!.
IssueWritten(r, n) ==
    /\ Issue(r.control)
    /\ dev' \in DeviceWrite(dev, protocol, StartAddress, Accepted(r.control, n))
    /\ download_loop' = r.next
    /\ wait' = r.wait
    /\ session' = NoSession
    /\ pc' = "wait"
    /\ UNCHANGED result

IssueStep(r) == IssueWritten(r, Len(r.control.data))

\* download::Step::Break => break
StepBreak ==
    /\ pc = "loop"
    /\ DownloadLoop_next(download_loop, descriptor) = "Break"
    /\ Return(Ok(<<>>))
    /\ UNCHANGED << inputs, seen, offset, buf, start, control, download_loop, wait,
                    dev, session >>
    /\ NoIssue

\* download::Step::UsbReset => { self.io.usb_reset()?; break }
StepUsbReset ==
    /\ pc = "loop"
    /\ DownloadLoop_next(download_loop, descriptor) = "UsbReset"
    /\ Issue([op |-> "usb_reset"])
    /\ dev' = [dev EXCEPT !.was_reset = TRUE]
    /\ Return(Ok(<<>>))
    /\ UNCHANGED << inputs, seen, offset, buf, start, control, download_loop, wait,
                    session >>

\* download::Step::Erase(cmd) => cmd.erase()?, control.execute()?
StepErase ==
    /\ pc = "loop"
    /\ DownloadLoop_next(download_loop, descriptor) = "Erase"
    /\ LET r == ErasePage_erase(download_loop)
       IN  IF r.ok
           THEN IssueStep(r.v)
           ELSE /\ Return(Err(r.e))
                /\ UNCHANGED << download_loop, wait, dev, session >>
                /\ NoIssue
    /\ UNCHANGED << inputs, seen, offset, buf, start, control >>

\* download::Step::SetAddress(cmd) => cmd.set_address(), control.execute()?
StepSetAddress ==
    /\ pc = "loop"
    /\ DownloadLoop_next(download_loop, descriptor) = "SetAddress"
    /\ IssueStep(SetAddress_set_address(download_loop).v)
    /\ UNCHANGED << inputs, seen, offset, buf, start, control >>

\* download::Step::DownloadChunk(cmd) => reader.fill_buf()? ...
StepDownloadChunk ==
    /\ pc = "loop"
    /\ DownloadLoop_next(download_loop, descriptor) = "DownloadChunk"
    /\ pc' = "fill_chunk"
    /\ UNCHANGED << inputs, seen, offset, buf, start, control, download_loop, wait,
                    result, dev, session >>
    /\ NoIssue

\* ... cmd.download(chunk)?, n = control.execute()?, reader.consume(n)
DownloadChunk ==
    /\ pc = "chunk"
    /\ LET r == DownloadChunk_download(download_loop, buf, descriptor)
       IN  IF r.ok
           THEN \E n \in WriteResults(dev, Len(r.v.control.data)) :
                  /\ IssueWritten(r.v, n)
                  /\ buf' = Buffer_consume(buf, n)
           ELSE /\ Return(Err(r.e))
                /\ UNCHANGED << download_loop, wait, dev, session, buf >>
                /\ NoIssue
    /\ UNCHANGED << inputs, seen, offset, start, control >>

\* wait_status!: get_status::Step::Break(cmd) => break cmd
WaitBreak ==
    /\ pc = "wait"
    /\ WaitState_next(wait, descriptor).step = "Break"
    /\ wait' = None
    /\ session' = NoSession
    /\ pc' = "loop"
    /\ UNCHANGED << inputs, seen, offset, buf, start, control, download_loop, result,
                    dev >>
    /\ NoIssue

\* wait_status!: get_status::Step::Wait(cmd, poll_timeout) => sleep,
\* GETSTATUS, WaitState::chain on the reply.  (The macro has no arm for
\* Step::ManifestWaitReset: the shell has no step to take on it.)
WaitPoll ==
    /\ pc = "wait"
    /\ WaitState_next(wait, descriptor).step = "Wait"
    /\ \E rep \in DeviceGetStatus(dev, descriptor, descriptor.transfer_size) :
         LET m == GetStatusRecv_chain(rep.bytes)
         IN  /\ Issue(GetStatus_get_status(descriptor.transfer_size))
             /\ dev' = rep.dev
             /\ seen' = Seen(rep.bytes, m, FALSE)
             /\ session' =
                  [polls |-> Min(session.polls + 1, 2),
                   slept |-> Some(WaitState_next(wait, descriptor).poll_timeout),
                   prev_timeout |-> session.reply_timeout,
                   reply_timeout |->
                     IF Len(rep.bytes) < 4 THEN None
                     ELSE Some(get_uint_le3(rep.bytes[2], rep.bytes[3], rep.bytes[4]))]
             /\ IF m.ok
                THEN wait' = WaitState_chain(wait, m.v) /\ UNCHANGED << pc, result >>
                ELSE Return(Err(m.e)) /\ UNCHANGED wait
    /\ UNCHANGED << inputs, offset, buf, start, control, download_loop >>

Next ==
    \/ Download
    \/ FillBuf
    \/ EarlyReturn
    \/ DfuDownload
    \/ PrerollGetStatus
    \/ ClearStatus
    \/ StartGetStatus
    \/ StepBreak
    \/ StepUsbReset
    \/ StepErase
    \/ StepSetAddress
    \/ StepDownloadChunk
    \/ DownloadChunk
    \/ WaitBreak
    \/ WaitPoll

Spec == Init /\ [][Next]_vars

\* The shell is one thread that runs until download returns: a step that
\* can be taken is taken.
SpecLive == Init /\ [][Next]_vars /\ WF_vars(Next)

(***************************************************************************)
(* The engine under a caller of its own: one call of                       *)
(* DownloadChunk::download with a chunk of the caller's choosing, on a     *)
(* DownloadLoop whose next() is Step::DownloadChunk.                       *)
(***************************************************************************)
\* The DownloadLoops tried: as Start::chain leaves them for the target
\* (DfuSe: erased to end_pos, address set), and with the block number or
\* the position about to overflow.
ChunkLoops(proto, override) ==
    LET st == DfuSansIo_download(override, proto, 0).v
        dl == Start_chain(st, [state |-> DfuIdle]).v
        ready == IF proto.kind = "Dfu" THEN dl
                 ELSE [dl EXCEPT !.protocol.address_set = TRUE,
                                 !.protocol.memory_layout = <<>>]
    IN  { [ready EXCEPT !.block_num = b, !.copied_pos = c] :
            b \in {dl.block_num, dl.block_num + 3, U16_MAX - 1, U16_MAX},
            c \in {dl.copied_pos, U32_MAX - 4} }

InitChunk ==
    /\ descriptor \in FunctionalDescriptors
    /\ \E t \in Targets :
         /\ protocol = t[1]
         /\ override_address = t[2]
         /\ download_loop \in ChunkLoops(t[1], t[2])
    /\ \E n \in 0..MaxChunk : buf = Firmware(n)
    /\ data = <<>>
    /\ length = 0
    /\ offset = 0
    /\ pc = "call"
    /\ start = None
    /\ control = None
    /\ wait = None
    /\ result = None
    /\ dev = DeviceInit(DfuDnloadIdle)
    /\ dnloads = <<>>
    /\ head = <<>>
    /\ last = None
    /\ counts = [clr_status |-> 0, usb_reset |-> 0]
    /\ session = NoSession
    /\ seen = NoneSeen

\* cmd.download(chunk): the WaitState and the DNLOAD it returns, or the error.
CallDownloadChunk ==
    /\ pc = "call"
    /\ DownloadLoop_next(download_loop, descriptor) = "DownloadChunk"
    /\ LET r == DownloadChunk_download(download_loop, buf, descriptor)
       IN  IF r.ok
           THEN /\ Issue(r.v.control)
                /\ download_loop' = r.v.next
                /\ wait' = r.v.wait
                /\ pc' = "called"
                /\ UNCHANGED result
           ELSE /\ Return(Err(r.e))
                /\ UNCHANGED << download_loop, wait >>
                /\ NoIssue
    /\ UNCHANGED << inputs, seen, offset, buf, start, control, dev, session >>

NextChunk == CallDownloadChunk

SpecChunk == InitChunk /\ [][NextChunk]_vars

(***************************************************************************)
(* Readings of the history.                                                *)
(***************************************************************************)
\* download has returned Ok(()).
Succeeded == pc = "done" /\ result # None /\ result.ok

\* A DfuSe command block: a DNLOAD of a DfuSe download with wValue 0 whose
\* payload opens with 0x21 (SET_ADDRESS) or 0x41 (ERASE).
IsCommandBlock(c) ==
    /\ protocol.kind = "Dfuse"
    /\ c.value = 0
    /\ c.data # <<>>
    /\ c.data[1] \in {33, 65}

\* The DNLOADs that are no command blocks (the final zero-length one
\* included), and those of them that carry bytes.
IsDataDnload(c) == ~IsCommandBlock(c)
IsNonEmptyData(c) == ~IsCommandBlock(c) /\ c.data # <<>>
DataDnloads == SelectSeq(dnloads, IsDataDnload)
NonEmptyDataDnloads == SelectSeq(dnloads, IsNonEmptyData)

\* The payloads of a sequence of transfers, one after the other.
RECURSIVE Payloads(_)
Payloads(cs) == IF cs = <<>> THEN <<>> ELSE Head(cs).data \o Payloads(Tail(cs))

(***************************************************************************)
(* C1.  Byte fidelity: when download has returned Ok, the payloads of the  *)
(* non-empty DNLOADs that are no DfuSe command blocks, joined in the order *)
(* they were issued, are the firmware stream, for both protocols, all four *)
(* flag combinations and every split of the stream into partial reads.     *)
(***************************************************************************)
C1_ByteFidelity == Succeeded => Payloads(NonEmptyDataDnloads) = data

\* A DfuSe download of the longest firmware has succeeded, with command
\* blocks and several data chunks behind it.
C1_Witness ==
    /\ Succeeded
    /\ protocol.kind = "Dfuse"
    /\ Len(data) = MaxFirmware
    /\ Len(NonEmptyDataDnloads) >= 3
    /\ Len(dnloads) > Len(DataDnloads)

(***************************************************************************)
(* C2.  Pre-erasure (DfuSe): no data DNLOAD covers an address outside the  *)
(* pages whose ERASE was issued and whose wait ended with the device       *)
(* reporting DfuDnloadIdle: the device has never taken a data byte at an   *)
(* address that was not erased.                                            *)
(***************************************************************************)
C2_PreErasure == dev.unerased = {}

(***************************************************************************)
(* C3.  A download of a stream that holds at least one byte, when it has   *)
(* returned Ok, has issued one USB reset if manifestation_tolerant and     *)
(* will_detach are both false and none otherwise; and in no download is a  *)
(* reset issued under the three other flag combinations, or twice.         *)
(***************************************************************************)
ResetExpected ==
    ~descriptor.manifestation_tolerant /\ ~descriptor.will_detach

C3_UsbReset ==
    /\ counts.usb_reset <= 1
    /\ counts.usb_reset = 1 => ResetExpected
    /\ (Succeeded /\ data # <<>>) =>
           counts.usb_reset = (IF ResetExpected THEN 1 ELSE 0)

\* A download has succeeded with its one USB reset issued.
C3_Witness ==
    /\ Succeeded
    /\ data # <<>>
    /\ ResetExpected
    /\ counts.usb_reset = 1
    /\ dev.was_reset

\* C3 as the claim words it, for every successful download.
C3_Original ==
    Succeeded => counts.usb_reset = (IF ResetExpected THEN 1 ELSE 0)

(***************************************************************************)
(* C4.  Termination: against a device that answers as tests/mock.rs does   *)
(* (busy or manifesting for at most MaxBusy polls, no fault) download      *)
(* returns; and when it has returned Ok for a stream that holds at least   *)
(* one byte, the device is in DfuIdle if manifestation_tolerant and in     *)
(* DfuManifestWaitReset otherwise.                                         *)
(***************************************************************************)
FinalDeviceState ==
    IF descriptor.manifestation_tolerant THEN DfuIdle ELSE DfuManifestWaitReset

C4_Termination ==
    /\ <>(pc = "done" \/ dev.faulted)
    /\ []((Succeeded /\ data # <<>>) => dev.state = FinalDeviceState)

\* A download to a device that is not manifestation tolerant has returned
\* Ok after several DNLOADs, the device left waiting for its reset.
C4_Witness ==
    /\ Succeeded
    /\ ~descriptor.manifestation_tolerant
    /\ dev.state = DfuManifestWaitReset
    /\ dev.writes >= 2
    /\ ~dev.faulted

\* C4's final state as the claim words it, for every download that returns
\* Ok.
C4_Original == Succeeded => dev.state = FinalDeviceState

(***************************************************************************)
(* C5.  Block numbering: the n-th DNLOAD that is no command block          *)
(* (n = 0, 1, ..., the final zero-length DNLOAD counted) has wValue n in   *)
(* a plain DFU download and n + 2 in a DfuSe download; ERASE and           *)
(* SET_ADDRESS, sent with wValue 0, use up no block number.                *)
(***************************************************************************)
FirstBlock == IF protocol.kind = "Dfu" THEN 0 ELSE 2

C5_BlockNumbering ==
    /\ \A i \in 1..Len(DataDnloads) :
           DataDnloads[i].value = (i - 1) + FirstBlock
    /\ \A i \in 1..Len(dnloads) :
           IsCommandBlock(dnloads[i]) => dnloads[i].value = 0

\* A DfuSe download has succeeded: command blocks went out before the data
\* and the last of its four data DNLOADs, the zero-length one, was block 5.
C5_Witness ==
    /\ Succeeded
    /\ protocol.kind = "Dfuse"
    /\ Len(dnloads) >= Len(DataDnloads) + 3
    /\ Len(DataDnloads) = 4
    /\ DataDnloads[4].value = 5
    /\ DataDnloads[4].data = <<>>

ZeroLengthDnloads == { i \in 1..Len(dnloads) : dnloads[i].data = <<>> }

C7_ZeroLength ==
    /\ ZeroLengthDnloads \subseteq {Len(dnloads)}
    /\ (Succeeded /\ data # <<>>) => ZeroLengthDnloads = {Len(dnloads)}

\* A stream of exactly two transfers has been downloaded: two full DNLOADs,
\* then the zero-length one.
C7_Witness ==
    /\ Succeeded
    /\ Len(data) = 2 * descriptor.transfer_size
    /\ Len(NonEmptyDataDnloads) = 2
    /\ ZeroLengthDnloads = {Len(dnloads)}

\* C7 as the claim words it, the stream that is empty at the first read
\* included.
C7_Original ==
    Succeeded =>
        /\ dnloads # <<>>
        /\ ZeroLengthDnloads = {Len(dnloads)}

(***************************************************************************)
(* C8.  Full chunks: however the reader splits the stream into partial     *)
(* reads, every non-empty data DNLOAD but the last non-empty one carries   *)
(* exactly transfer_size bytes.                                            *)
(***************************************************************************)
C8_FullChunks ==
    \A i \in 1..(Len(NonEmptyDataDnloads) - 1) :
        Len(NonEmptyDataDnloads[i].data) = descriptor.transfer_size

\* Three data DNLOADs have gone out, the third one short.
C8_Witness ==
    /\ Len(NonEmptyDataDnloads) = 3
    /\ Len(NonEmptyDataDnloads[3].data) < descriptor.transfer_size
    /\ Len(NonEmptyDataDnloads[1].data) = descriptor.transfer_size

(***************************************************************************)
(* C9.  Poll-timeout honouring: within one WaitState session the sleep     *)
(* before a GETSTATUS that is not the session's first is exactly the poll  *)
(* timeout decoded from the reply to the GETSTATUS before it -- 0 when     *)
(* that reply said 0, with no clamp and no minimum.                        *)
(***************************************************************************)
C9_PollTimeout ==
    session.prev_timeout # None => session.slept = session.prev_timeout

\* The second poll of a session has been made after a sleep of the 10 ms
\* the first reply asked for.
C9_Witness ==
    /\ session.polls = 2
    /\ session.prev_timeout = Some(10)
    /\ session.slept = Some(10)

(***************************************************************************)
(* C10.  Pre-roll ordering: the commands of a download open with           *)
(* GETSTATUS, then CLRSTATUS or nothing, then GETSTATUS; CLRSTATUS is sent *)
(* nowhere else and at most once; and no DNLOAD (nor reset) is issued      *)
(* before Start::chain has taken the reply to the second GETSTATUS.  (A    *)
(* step of the pre-roll that fails ends the download there.)               *)
(***************************************************************************)
IsGetStatus(c) == c.op = "read_control" /\ c.request = DFU_GETSTATUS
IsClrStatus(c) == c.op = "write_control" /\ c.request = DFU_CLRSTATUS

\* The place in `head` of the second GETSTATUS of the pre-roll.
SecondGetStatus == IF Len(head) >= 2 /\ IsClrStatus(head[2]) THEN 3 ELSE 2

C10_PrerollOrdering ==
    /\ Len(head) >= 1 => IsGetStatus(head[1])
    /\ Len(head) >= 2 => IsClrStatus(head[2]) \/ IsGetStatus(head[2])
    /\ Len(head) >= SecondGetStatus => IsGetStatus(head[SecondGetStatus])
    /\ \A i \in 1..Len(head) : IsClrStatus(head[i]) => i = 2
    /\ counts.clr_status <= 1
    /\ \A i \in 1..Len(head) :
           ~(IsGetStatus(head[i]) \/ IsClrStatus(head[i])) => i > SecondGetStatus
    /\ (dnloads # <<>> \/ counts.usb_reset > 0) =>
           /\ Len(head) > SecondGetStatus
           /\ download_loop # None

\* A download opened GETSTATUS, CLRSTATUS, GETSTATUS and then sent its first
\* DNLOAD.
C10_Witness ==
    /\ Len(head) = HeadLen
    /\ IsGetStatus(head[1])
    /\ IsClrStatus(head[2])
    /\ IsGetStatus(head[3])
    /\ head[4].op = "write_control" /\ head[4].request = DFU_DNLOAD

(***************************************************************************)
(* C11.  CLRSTATUS (OUT, bRequest 4, wValue 0, no payload) is issued if    *)
(* and only if the reply to the first GETSTATUS of the pre-roll reported   *)
(* DfuError; after any other state ClearStatus::chain hands back no        *)
(* transfer and the next command is the second GETSTATUS; and a download   *)
(* issues at most one CLRSTATUS.                                           *)
(***************************************************************************)
\* ClearStatus::chain has been applied and what it returned has been run.
ClearDone == seen.preroll # <<>> /\ ~(pc = "clear" /\ control # None)

C11_ClearStatus ==
    /\ counts.clr_status <= 1
    /\ counts.clr_status = 1 =>
           (seen.preroll # <<>> /\ seen.preroll[1] = DfuError)
    /\ ClearDone => (counts.clr_status = 1 <=> seen.preroll[1] = DfuError)
    /\ (Len(seen.preroll) = 1 /\ seen.preroll[1] # DfuError /\ pc = "clear") =>
           (control = None /\ Len(head) = 1)
    /\ \A i \in 1..Len(head) :
           IsClrStatus(head[i]) =>
               /\ head[i].op = "write_control"
               /\ head[i].request = 4
               /\ head[i].value = 0
               /\ head[i].data = <<>>

\* A device that was in DfuError has been cleared with one CLRSTATUS and the
\* second GETSTATUS found it idle.
C11_Witness ==
    /\ counts.clr_status = 1
    /\ seen.preroll = << DfuError, DfuIdle >>
    /\ IsClrStatus(head[2])

(***************************************************************************)
(* C12.  When the reply to the second GETSTATUS of the pre-roll reports a  *)
(* state other than DfuIdle (DfuError still there after CLRSTATUS,         *)
(* AppIdle, DfuDnloadIdle), download returns                               *)
(* InvalidState{got: that state, expected: DfuIdle} and has issued no      *)
(* DNLOAD of any kind and no USB reset.                                    *)
(***************************************************************************)
C12_StartInvalidState ==
    (Len(seen.preroll) = 2 /\ seen.preroll[2] # DfuIdle) =>
        /\ pc = "done"
        /\ result = Err(InvalidState(seen.preroll[2], DfuIdle))
        /\ download_loop = None
        /\ dnloads = <<>>
        /\ counts.usb_reset = 0
        /\ \A i \in 1..Len(head) : IsGetStatus(head[i]) \/ IsClrStatus(head[i])

\* CLRSTATUS did not clear the device: the second reply said DfuError again
\* and download returned InvalidState.
C12_Witness ==
    /\ seen.preroll = << DfuError, DfuError >>
    /\ counts.clr_status = 1
    /\ result = Err(InvalidState(DfuError, DfuIdle))

(***************************************************************************)
(* C13.  After each GETSTATUS reply of a wait: when the state reported is  *)
(* the state waited for the wait yields Break; when it is the intermediate *)
(* state it yields another Wait; for every other state the download fails  *)
(* with InvalidState{got, expected: intermediate} and polls no more.       *)
(***************************************************************************)
Polled == session.polls >= 1 /\ seen.state # None /\ wait # None

C13_WaitState ==
    Polled =>
        LET s == seen.state[1]
        IN  CASE s = wait.state ->
                   pc = "wait" /\ WaitState_next(wait, descriptor).step = "Break"
              [] s # wait.state /\ s = wait.intermediate ->
                   pc = "wait" /\ WaitState_next(wait, descriptor).step = "Wait"
              [] OTHER ->
                   pc = "done" /\ result = Err(InvalidState(s, wait.intermediate))

(***************************************************************************)
(* C14.  The state delivered to the consumer of a parsed GETSTATUS reply   *)
(* is for_status of the state byte of the reply: DfuDnloadSync (3) is seen *)
(* as DfuDnbusy, DfuManifestSync (6) as DfuManifest, every other value     *)
(* unchanged.                                                              *)
(***************************************************************************)
C14_ForStatus ==
    seen.state # None => seen.state[1] = for_status(StateOfByte(seen.raw[1]))

(***************************************************************************)
(* C15.  After the pre-roll, a GETSTATUS reply that reports DfuError makes *)
(* the download fail with an error: the engine issues no second CLRSTATUS, *)
(* polls no more, and issues no further DNLOAD or USB reset.               *)
(***************************************************************************)
ErrorAfterPreroll ==
    /\ Len(seen.preroll) = 2
    /\ seen.preroll[2] = DfuIdle
    /\ seen.state = Some(DfuError)

C15_ErrorFatal ==
    ErrorAfterPreroll =>
        /\ pc = "done"
        /\ result # None
        /\ ~result.ok
        /\ counts.clr_status <= 1
        /\ counts.usb_reset = 0

(***************************************************************************)
(* C16.  Construction of a DfuSe download, with a the override address     *)
(* when one was set and the protocol's address otherwise: it starts with   *)
(* end_pos = a + length, copied_pos = a, erased_pos = a, block_num = 2 and *)
(* address_set = false; when a + length exceeds u32::MAX it fails with     *)
(* NoSpaceLeft and no command at all, not even the first GETSTATUS, has    *)
(* been issued.  A plain DFU download starts with end_pos = length,        *)
(* copied_pos = 0 and block_num = 0, and its construction never fails.     *)
(***************************************************************************)
Overflows == protocol.kind = "Dfuse" /\ StartAddress > U32_MAX - length

\* DfuSansIo::download has been called (the first fill_buf gave bytes).
Constructed == pc \notin {"idle", "fill_first", "download"} /\ data # <<>>

\* The DownloadLoop is the one Start::chain built: nothing has followed
\* the pre-roll.
FirstLoop == pc = "loop" /\ dnloads = <<>>

C16_Construction ==
    /\ (Constructed /\ Overflows) =>
          /\ pc = "done"
          /\ result = Err(Error("NoSpaceLeft"))
          /\ head = <<>> /\ last = <<>>
    /\ (Constructed /\ ~Overflows) => start # None
    /\ (start # None /\ protocol.kind = "Dfuse") =>
          /\ start.end_pos = StartAddress + length
          /\ start.protocol.address = StartAddress
          /\ start.protocol.erased_pos = StartAddress
          /\ start.protocol.address_set = FALSE
    /\ (start # None /\ protocol.kind = "Dfu") => start.end_pos = length
    /\ (FirstLoop /\ protocol.kind = "Dfuse") =>
          /\ download_loop.end_pos = StartAddress + length
          /\ download_loop.copied_pos = StartAddress
          /\ download_loop.protocol.erased_pos = StartAddress
          /\ download_loop.protocol.address_set = FALSE
          /\ download_loop.block_num = 2
    /\ (FirstLoop /\ protocol.kind = "Dfu") =>
          /\ download_loop.end_pos = length
          /\ download_loop.copied_pos = 0
          /\ download_loop.block_num = 0

\* A DfuSe download that does not fit the address space has returned
\* NoSpaceLeft.
C16_Witness ==
    /\ Overflows
    /\ Constructed
    /\ result = Err(Error("NoSpaceLeft"))

(***************************************************************************)
(* C17.  In a DfuSe download no DNLOAD has wValue 1; the DNLOADs with      *)
(* wValue 0 are ERASE and SET_ADDRESS command blocks and nothing else; and *)
(* every data DNLOAD, the final zero-length one included, has a wValue of  *)
(* at least 2: the DNLOADs with wValue >= 2 carry all the bytes the engine *)
(* has copied.                                                             *)
(***************************************************************************)
HasBlockNumber(c) == c.value >= 2

C17_NoBlockOne ==
    protocol.kind = "Dfuse" =>
        /\ \A i \in 1..Len(dnloads) :
             LET c == dnloads[i]
             IN  /\ c.value # 1
                 /\ c.value = 0 =>
                      /\ Len(c.data) = 5
                      /\ c.data[1] \in {65, 33}
                      /\ c.data[1] = 33 => c.data = DownloadCommandSetAddress(StartAddress)
                 /\ c.data = <<>> => c.value >= 2
        /\ download_loop # None =>
             Len(Payloads(SelectSeq(dnloads, HasBlockNumber)))
                 = download_loop.copied_pos - StartAddress

\* A DfuSe download has succeeded with command blocks, data blocks and the
\* zero-length block on the wire.
C17_Witness ==
    /\ Succeeded
    /\ protocol.kind = "Dfuse"
    /\ \E i \in 1..Len(dnloads) : dnloads[i].value = 0
    /\ \E i \in 1..Len(dnloads) : dnloads[i].value = 2 /\ dnloads[i].data # <<>>
    /\ dnloads[Len(dnloads)].data = <<>>
    /\ dnloads[Len(dnloads)].value >= 3

(***************************************************************************)
(* Scenario S3: a DfuSe target at address 0 whose layout is 4-byte pages   *)
(* (8 of them stand for the 1024 of the scenario), transfer_size 6, and a  *)
(* firmware of 24 bytes, downloaded by DfuSync::download; the same call    *)
(* with an empty stream is kept beside it.                                 *)
(***************************************************************************)
S3Layout == << 4, 4, 4, 4, 4, 4, 4, 4 >>
S3Firmware == Firmware(24)

InitS3 ==
    /\ descriptor \in { d \in FunctionalDescriptors : d.transfer_size = 6 }
    /\ protocol = ProtocolDfuse(0, S3Layout)
    /\ override_address = None
    /\ data \in { S3Firmware, <<>> }
    /\ length = Len(data)
    /\ offset = 0
    /\ buf = <<>>
    /\ pc = "idle"
    /\ start = None
    /\ control = None
    /\ download_loop = None
    /\ wait = None
    /\ result = None
    /\ dev \in { DeviceInit(s) : s \in DeviceStartStates }
    /\ dnloads = <<>>
    /\ head = <<>>
    /\ last = None
    /\ counts = [clr_status |-> 0, usb_reset |-> 0]
    /\ session = NoSession
    /\ seen = NoneSeen

SpecS3 == InitS3 /\ [][Next]_vars

\* The DNLOADs of scenario S3 in the order the engine issues them, with the
\* data blocks numbered from 2 and `zero` the block number of the
\* zero-length DNLOAD.
S3Dnloads(blocks, zero) ==
    [i \in 1..6 |-> Dnload(0, DownloadCommandErase(4 * (i - 1)))]
    \o << Dnload(0, DownloadCommandSetAddress(0)) >>
    \o [i \in 1..blocks |->
          Dnload(i + 1, SubSeq(S3Firmware, 6 * (i - 1) + 1, Min(6 * i, 24)))]
    \o << Dnload(zero, <<>>) >>

IsErase(c) == c.value = 0 /\ c.data # <<>> /\ c.data[1] = 65
IsSetAddress(c) == c.value = 0 /\ c.data # <<>> /\ c.data[1] = 33

(***************************************************************************)
(* C18.  Scenario S3, once download has returned Ok: exactly one           *)
(* SET_ADDRESS, of address 0; exactly 6 ERASE commands, of the addresses   *)
(* 0, 4, 8, 12, 16, 20; the non-empty data DNLOADs at the block numbers    *)
(* 2..5; and the zero-length DNLOAD at block number 6.                     *)
(***************************************************************************)
C18_ScenarioS3 ==
    (Succeeded /\ data = S3Firmware) =>
        /\ SelectSeq(dnloads, IsSetAddress) = << Dnload(0, DownloadCommandSetAddress(0)) >>
        /\ SelectSeq(dnloads, IsErase) =
             [i \in 1..6 |-> Dnload(0, DownloadCommandErase(4 * (i - 1)))]
        /\ [i \in 1..Len(NonEmptyDataDnloads) |-> NonEmptyDataDnloads[i].value]
             = << 2, 3, 4, 5 >>
        /\ dnloads[Len(dnloads)] = Dnload(6, <<>>)
        /\ dnloads = S3Dnloads(4, 6)

\* The 24 bytes have been downloaded and download has returned Ok.
C18_Witness ==
    /\ Succeeded
    /\ data = S3Firmware
    /\ Payloads(NonEmptyDataDnloads) = S3Firmware
    /\ Len(dnloads) = 12

\* C18 as the claim words it: non-empty data DNLOADs at the block numbers
\* 2..6 and the zero-length DNLOAD at block number 7.
C18_Original ==
    (Succeeded /\ data = S3Firmware) =>
        /\ SelectSeq(dnloads, IsSetAddress) = << Dnload(0, DownloadCommandSetAddress(0)) >>
        /\ SelectSeq(dnloads, IsErase) =
             [i \in 1..6 |-> Dnload(0, DownloadCommandErase(4 * (i - 1)))]
        /\ [i \in 1..Len(NonEmptyDataDnloads) |-> NonEmptyDataDnloads[i].value]
             = << 2, 3, 4, 5, 6 >>
        /\ dnloads[Len(dnloads)] = Dnload(7, <<>>)

(***************************************************************************)
(* DfuSync::detach: lib.rs, DfuSansIo::detach, executed on the io.  The    *)
(* descriptor carries detach_timeout here.  tests/mock.rs has no arm for   *)
(* DETACH: a device in AppIdle enters AppDetach, any other rejects it.     *)
(***************************************************************************)
DFU_DETACH == 0

DetachTimeouts == {0, 255, 1000}

DetachDescriptors ==
    [manifestation_tolerant : BOOLEAN, will_detach : BOOLEAN,
     transfer_size : TransferSizes, detach_timeout : DetachTimeouts]

\* DfuSansIo::detach: UsbWriteControl::new(REQUEST_TYPE, DFU_DETACH, 1000, [])
DfuSansIo_detach ==
    [op |-> "write_control", request_type |-> REQUEST_TYPE,
     request |-> DFU_DETACH, value |-> 1000, data |-> <<>>]

\* detach.rs, Detach::detach: the transfer it issues.
Detach_detach(desc) ==
    [op |-> "write_control", request_type |-> REQUEST_TYPE,
     request |-> DFU_DETACH, value |-> desc.detach_timeout, data |-> <<>>]

DeviceDetach(d) ==
    IF d.state = AppIdle
    THEN [d EXCEPT !.state = AppDetach]
    ELSE [d EXCEPT !.state = DfuError, !.faulted = TRUE]

InitDetach ==
    /\ descriptor \in DetachDescriptors
    /\ \E t \in Targets : protocol = t[1] /\ override_address = t[2]
    /\ data = <<>>
    /\ length = 0
    /\ offset = 0
    /\ buf = <<>>
    /\ pc = "detach"
    /\ start = None
    /\ control = None
    /\ download_loop = None
    /\ wait = None
    /\ result = None
    /\ dev \in { DeviceInit(s) : s \in DeviceStartStates }
    /\ dnloads = <<>>
    /\ head = <<>>
    /\ last = None
    /\ counts = [clr_status |-> 0, usb_reset |-> 0]
    /\ session = NoSession
    /\ seen = NoneSeen

\* `self.dfu.detach().execute(&self.io)?; Ok(())`
DfuSyncDetach ==
    /\ pc = "detach"
    /\ Issue(DfuSansIo_detach)
    /\ dev' = DeviceDetach(dev)
    /\ result' = Ok(<<>>)
    /\ pc' = "detached"
    /\ UNCHANGED << inputs, seen, offset, buf, start, control, download_loop, wait,
                    session >>

\* The operations of DfuSync: one download, or one detach.
InitApi == Init \/ InitDetach
NextApi == Next \/ DfuSyncDetach
SpecApi == InitApi /\ [][NextApi]_vars

(***************************************************************************)
(* C19.  Request encoding: every GETSTATUS is issued through read_control  *)
(* with bmRequestType 0b00100001 (the engine does not set the direction    *)
(* bit), bRequest 3, wValue 0 and the adapter's buffer of transfer_size    *)
(* bytes; every OUT request (DETACH, DNLOAD, CLRSTATUS) is issued through  *)
(* write_control with bmRequestType 0b00100001.                            *)
(***************************************************************************)
Transfers == { head[i] : i \in 1..Len(head) } \cup { last[i] : i \in 1..Len(last) }

C19_RequestEncoding ==
    \A c \in Transfers :
        /\ c.op = "read_control" =>
              /\ c.request = DFU_GETSTATUS
              /\ c.request_type = 33
              /\ c.value = 0
              /\ c.buffer = descriptor.transfer_size
        /\ c.op = "write_control" =>
              /\ c.request \in {DFU_DETACH, DFU_DNLOAD, DFU_CLRSTATUS}
              /\ c.request_type = 33
        /\ c.op \in {"read_control", "write_control", "usb_reset"}

\* A download with a CLRSTATUS in its pre-roll has gone on to a DNLOAD.
C19_Witness ==
    /\ Len(head) = HeadLen
    /\ IsGetStatus(head[1])
    /\ IsClrStatus(head[2])
    /\ IsGetStatus(head[3])
    /\ head[4].op = "write_control" /\ head[4].request = DFU_DNLOAD
    /\ head[1].request_type = 33

\* C19 as the claim words it: GETSTATUS goes out with bmRequestType
\* 0b10100001 and a 6-byte buffer, and read_control never gets the OUT
\* request type.
C19_Original ==
    \A c \in Transfers :
        /\ c.op = "read_control" =>
              /\ c.request = DFU_GETSTATUS
              /\ c.request_type = 161
              /\ c.value = 0
              /\ c.buffer = 6
        /\ c.op = "write_control" =>
              /\ c.request \in {DFU_DETACH, DFU_DNLOAD, DFU_CLRSTATUS}
              /\ c.request_type = 33

(***************************************************************************)
(* C20.  detach() issues exactly one control OUT, with bRequest 0, an      *)
(* empty payload and wValue the detach_timeout of the functional           *)
(* descriptor, and no GETSTATUS or other command before or after it.       *)
(***************************************************************************)
C20_Detach ==
    pc = "detached" =>
        /\ head = << Detach_detach(descriptor) >>
        /\ last = Some(Detach_detach(descriptor))
        /\ dnloads = <<>>
        /\ counts = [clr_status |-> 0, usb_reset |-> 0]

(***************************************************************************)
(* Downloads to devices whose GETSTATUS replies carry a status other than  *)
(* Ok (MockIO::status) and are 3, 6 or 8 bytes long, read into a buffer of *)
(* transfer_size = 4 or 8 bytes.                                           *)
(***************************************************************************)
StatusBytes == {0, 11}
ReplyLens == {3, 6, 8}

StatusDescriptors ==
    [manifestation_tolerant : BOOLEAN, will_detach : BOOLEAN,
     transfer_size : {4, 8}]

InitStatus ==
    /\ descriptor \in StatusDescriptors
    /\ \E t \in Targets : protocol = t[1] /\ override_address = t[2]
    /\ \E n \in {0, MaxFirmware} :
         /\ data = Firmware(n)
         /\ length = n
    /\ offset = 0
    /\ buf = <<>>
    /\ pc = "idle"
    /\ start = None
    /\ control = None
    /\ download_loop = None
    /\ wait = None
    /\ result = None
    /\ dev \in { [DeviceInit(s) EXCEPT !.status = b, !.reply_lens = ReplyLens] :
                   s \in DeviceStartStates, b \in StatusBytes }
    /\ dnloads = <<>>
    /\ head = <<>>
    /\ last = None
    /\ counts = [clr_status |-> 0, usb_reset |-> 0]
    /\ session = NoSession
    /\ seen = NoneSeen

SpecStatus == InitStatus /\ [][Next]_vars

(***************************************************************************)
(* C21.  A GETSTATUS reply shorter than 6 bytes fails the download with    *)
(* ResponseTooShort{got: its length, expected: 6}: the chained command has *)
(* not advanced and no further command is issued.  A reply of 6 bytes or   *)
(* more never fails in the parser and is decoded from its first 6 bytes.   *)
(***************************************************************************)
ShortReply == seen.len # None /\ seen.len[1] < 6
LongReply == seen.len # None /\ seen.len[1] >= 6

C21_ResponseTooShort ==
    /\ ShortReply =>
          /\ pc = "done"
          /\ result = Err(ResponseTooShort(seen.len[1], 6))
          /\ IsGetStatus(last[1])
          /\ Len(seen.preroll) = 0 => (control = None /\ download_loop = None)
          /\ Len(seen.preroll) = 1 => (control = None /\ download_loop = None)
          /\ Len(seen.preroll) <= 1 => (wait = None /\ dnloads = <<>>)
          /\ wait # None => ~wait.end
    /\ LongReply =>
          /\ result # None => (result.ok \/ result.e.error # "ResponseTooShort")
          /\ seen.state = Some(StateOfByte(seen.raw[1]))
          /\ seen.raw[1] # 170 /\ seen.raw[1] # 85

\* A poll of a wait got a reply of 3 bytes.
C21_Witness ==
    /\ ShortReply
    /\ seen.len = Some(3)
    /\ wait # None
    /\ result = Err(ResponseTooShort(3, 6))

(***************************************************************************)
(* C22.  The GETSTATUS parser never raises on the status byte: whatever    *)
(* the status of a reply of 6 bytes or more, each consumer of the reply    *)
(* (ClearStatus, Start, WaitState) goes on exactly as it does on the same  *)
(* reply with status Ok.                                                   *)
(***************************************************************************)
\* The reply just read, had its status been Ok.
OkMessage(poll_timeout) ==
    GetStatusRecv_chain(<< 0, poll_timeout % 256, (poll_timeout \div 256) % 256,
                           (poll_timeout \div 65536) % 256, seen'.raw[1], 0 >>).v

\* A step of the pre-roll or of a wait that read a reply of 6 bytes or more.
PrerollReply == pc = "preroll1" /\ pc' # pc /\ result' # Err(Error("panic"))
StartReply == pc = "clear" /\ control = None /\ pc' # pc
WaitReply == pc = "wait" /\ session' # session /\ session'.slept # None

C22_StatusIgnored ==
    [][ LongReply' =>
          /\ PrerollReply =>
                /\ pc' = "clear"
                /\ control' = ClearStatus_chain(OkMessage(0))
                /\ result' = result
          /\ StartReply =>
                LET dl == Start_chain(start, OkMessage(0))
                IN  IF dl.ok
                    THEN pc' = "loop" /\ download_loop' = dl.v /\ result' = result
                    ELSE pc' = "done" /\ result' = Err(dl.e)
          /\ WaitReply =>
                /\ pc' = "wait"
                /\ wait' = WaitState_chain(wait, OkMessage(session'.reply_timeout[1]))
                /\ result' = result
      ]_vars

\* A download to a device whose every reply said status 0x0b has
\* succeeded.
C22_Witness ==
    /\ Succeeded
    /\ seen.status = Some(11)
    /\ data # <<>>
    /\ Payloads(NonEmptyDataDnloads) = data

(***************************************************************************)
(* Downloads through an io whose write_control may return fewer bytes than *)
(* the DNLOAD's payload (DfuIo::Write is the number of bytes written, and  *)
(* DfuSync::download consumes that many from the reader).                  *)
(***************************************************************************)
InitShort ==
    /\ descriptor \in FunctionalDescriptors
    /\ protocol \in { ProtocolDfu, ProtocolDfuse(0, <<4, 4, 8, 8>>) }
    /\ override_address = None
    /\ \E n \in {0, MaxChunk} :
         /\ data = Firmware(n)
         /\ length = n
    /\ offset = 0
    /\ buf = <<>>
    /\ pc = "idle"
    /\ start = None
    /\ control = None
    /\ download_loop = None
    /\ wait = None
    /\ result = None
    /\ dev \in { [DeviceInit(s) EXCEPT !.short_writes = TRUE] : s \in {DfuIdle, DfuError} }
    /\ dnloads = <<>>
    /\ head = <<>>
    /\ last = None
    /\ counts = [clr_status |-> 0, usb_reset |-> 0]
    /\ session = NoSession
    /\ seen = NoneSeen

SpecShort == InitShort /\ [][Next]_vars

(***************************************************************************)
(* C23.  copied_pos accounting: after every DownloadChunk step copied_pos  *)
(* is the start address (0 for plain DFU) plus the number of firmware      *)
(* bytes the device has accepted so far, the sum of what write_control     *)
(* returned for the data DNLOADs, also when write_control returned less    *)
(* than the length of the chunk.                                           *)
(***************************************************************************)
\* The bytes the reader was told to consume: the sum of the counts
\* write_control returned for the data DNLOADs.
Consumed == offset - Len(buf)

C23_CopiedPos ==
    (download_loop # None /\ pc \in {"loop", "wait", "done"}) =>
        download_loop.copied_pos = StartAddress + Consumed

(***************************************************************************)
(* asynchronous.rs: Buffer over an AsyncRead, and DfuASync::download.  The *)
(* engine, the reader and the device are the ones of the synchronous       *)
(* shell; the shell's own code is translated again from asynchronous.rs.   *)
(***************************************************************************)
\* Buffer::fill_buf (asynchronous.rs): the filled part after a read that
\* returned `bytes`.
AsyncBuffer_read(b, bytes) == b \o bytes

\* An asynchronous fill_buf that awaits one read only.
AsyncBuffer_fill_once(r, level, size) == FALSE

\* Buffer::fill_buf (asynchronous.rs): whether its loop goes round again.
AsyncBuffer_fill_more(r, level, size) == r # 0 /\ level < size

\* Buffer::consume (asynchronous.rs)
AsyncBuffer_consume(b, amt) ==
    IF amt >= Len(b) THEN <<>> ELSE SubSeq(b, amt + 1, Len(b))

\* download is called: Buffer::new(transfer_size, reader).
AsyncDownload ==
    /\ pc = "idle"
    /\ pc' = "fill_first"
    /\ UNCHANGED << inputs, seen, offset, buf, start, control, download_loop, wait,
                    result, dev, session >>
    /\ NoIssue

\* Buffer::fill_buf, one turn of its loop: one read of the reader.  The
\* loop is left when the read returns 0 or the buffer is full.
AsyncFillBuf ==
    /\ pc \in {"fill_first", "fill_chunk"}
    /\ LET size == descriptor.transfer_size
           after == IF pc = "fill_first" THEN "download" ELSE "chunk"
       IN  IF Len(buf) < size
           THEN \E r \in ReadResults(size - Len(buf), Len(data) - offset) :
                  /\ buf' = AsyncBuffer_read(buf, SubSeq(data, offset + 1, offset + r))
                  /\ offset' = offset + r
                  /\ pc' = IF AsyncBuffer_fill_more(r, Len(buf) + r, size)
                           THEN pc ELSE after
           ELSE /\ pc' = after
                /\ UNCHANGED << buf, offset >>
    /\ UNCHANGED << inputs, seen, start, control, download_loop, wait, result, dev,
                    session >>
    /\ NoIssue

\* `if buffer.is_empty() { return Ok(()) }`
AsyncEarlyReturn ==
    /\ pc = "download"
    /\ buf = <<>>
    /\ Return(Ok(<<>>))
    /\ UNCHANGED << inputs, seen, offset, buf, start, control, download_loop, wait,
                    dev, session >>
    /\ NoIssue

\* `self.dfu.download(self.io.protocol(), length)?`
AsyncDfuDownload ==
    /\ pc = "download"
    /\ buf # <<>>
    /\ LET r == DfuSansIo_download(override_address, protocol, length)
       IN  IF r.ok
           THEN start' = r.v /\ pc' = "preroll1" /\ UNCHANGED result
           ELSE Return(Err(r.e)) /\ UNCHANGED start
    /\ UNCHANGED << inputs, seen, offset, buf, control, download_loop, wait, dev,
                    session >>
    /\ NoIssue

\* The first GETSTATUS and ClearStatus::chain on its reply.  The buffer read
\* into is self.buffer, of transfer_size bytes: with fewer than 6 the
\* debug_assert of GetStatus::get_status panics in a debug build.
AsyncPrerollGetStatus ==
    /\ pc = "preroll1"
    /\ \/ /\ descriptor.transfer_size < 6
          /\ Return(Err(Error("panic")))
          /\ UNCHANGED << control, dev, seen >>
          /\ NoIssue
       \/ \E rep \in DeviceGetStatus(dev, descriptor, descriptor.transfer_size) :
            LET m == GetStatusRecv_chain(rep.bytes)
            IN  /\ Issue(GetStatus_get_status(descriptor.transfer_size))
                /\ dev' = rep.dev
                /\ seen' = Seen(rep.bytes, m, TRUE)
                /\ IF m.ok
                   THEN /\ control' = ClearStatus_chain(m.v)
                        /\ pc' = "clear"
                        /\ UNCHANGED result
                   ELSE Return(Err(m.e)) /\ UNCHANGED control
    /\ UNCHANGED << inputs, offset, buf, start, download_loop, wait, session >>

\* `if let Some(control) = control { control.execute_async(&self.io).await?; }`, the
\* second GETSTATUS and Start::chain on its reply.
AsyncClearStatus ==
    /\ pc = "clear"
    /\ control # None
    /\ Issue(control[1])
    /\ dev' \in DeviceWrite(dev, protocol, StartAddress, control[1])
    /\ control' = None
    /\ UNCHANGED << inputs, seen, offset, buf, pc, start, download_loop, wait, result,
                    session >>

AsyncStartGetStatus ==
    /\ pc = "clear"
    /\ control = None
    /\ \E rep \in DeviceGetStatus(dev, descriptor, descriptor.transfer_size) :
         LET m == GetStatusRecv_chain(rep.bytes)
             dl == Start_chain(start, m.v)
         IN  /\ Issue(GetStatus_get_status(descriptor.transfer_size))
             /\ dev' = rep.dev
             /\ seen' = Seen(rep.bytes, m, TRUE)
             /\ IF ~m.ok
                THEN Return(Err(m.e)) /\ UNCHANGED download_loop
                ELSE IF ~dl.ok
                THEN Return(Err(dl.e)) /\ UNCHANGED download_loop
                ELSE /\ download_loop' = dl.v
                     /\ pc' = "loop"
                     /\ UNCHANGED result
    /\ UNCHANGED << inputs, offset, buf, start, control, wait, session >>

\* A step of the download loop that issues the DNLOAD of r (the Ok value of
\* erase / set_address / download) and goes on to wait_status!.
AsyncIssueWritten(r, n) ==
    /\ Issue(r.control)
    /\ dev' \in DeviceWrite(dev, protocol, StartAddress, Accepted(r.control, n))
    /\ download_loop' = r.next
    /\ wait' = r.wait
    /\ session' = NoSession
    /\ pc' = "wait"
    /\ UNCHANGED result

AsyncIssueStep(r) == AsyncIssueWritten(r, Len(r.control.data))

\* download::Step::Break => break
AsyncStepBreak ==
    /\ pc = "loop"
    /\ DownloadLoop_next(download_loop, descriptor) = "Break"
    /\ Return(Ok(<<>>))
    /\ UNCHANGED << inputs, seen, offset, buf, start, control, download_loop, wait,
                    dev, session >>
    /\ NoIssue

\* download::Step::UsbReset => { self.io.usb_reset().await?; break }
AsyncStepUsbReset ==
    /\ pc = "loop"
    /\ DownloadLoop_next(download_loop, descriptor) = "UsbReset"
    /\ Issue([op |-> "usb_reset"])
    /\ dev' = [dev EXCEPT !.was_reset = TRUE]
    /\ Return(Ok(<<>>))
    /\ UNCHANGED << inputs, seen, offset, buf, start, control, download_loop, wait,
                    session >>

\* download::Step::Erase(cmd) => cmd.erase()?, control.execute_async().await?
AsyncStepErase ==
    /\ pc = "loop"
    /\ DownloadLoop_next(download_loop, descriptor) = "Erase"
    /\ LET r == ErasePage_erase(download_loop)
       IN  IF r.ok
           THEN AsyncIssueStep(r.v)
           ELSE /\ Return(Err(r.e))
                /\ UNCHANGED << download_loop, wait, dev, session >>
                /\ NoIssue
    /\ UNCHANGED << inputs, seen, offset, buf, start, control >>

\* download::Step::SetAddress(cmd) => cmd.set_address(), control.execute_async().await?
AsyncStepSetAddress ==
    /\ pc = "loop"
    /\ DownloadLoop_next(download_loop, descriptor) = "SetAddress"
    /\ AsyncIssueStep(SetAddress_set_address(download_loop).v)
    /\ UNCHANGED << inputs, seen, offset, buf, start, control >>

\* download::Step::DownloadChunk(cmd) => reader.fill_buf().await? ...
AsyncStepDownloadChunk ==
    /\ pc = "loop"
    /\ DownloadLoop_next(download_loop, descriptor) = "DownloadChunk"
    /\ pc' = "fill_chunk"
    /\ UNCHANGED << inputs, seen, offset, buf, start, control, download_loop, wait,
                    result, dev, session >>
    /\ NoIssue

\* ... cmd.download(chunk)?, n = control.execute_async().await?, reader.consume(n)
AsyncDownloadChunk ==
    /\ pc = "chunk"
    /\ LET r == DownloadChunk_download(download_loop, buf, descriptor)
       IN  IF r.ok
           THEN \E n \in WriteResults(dev, Len(r.v.control.data)) :
                  /\ AsyncIssueWritten(r.v, n)
                  /\ buf' = AsyncBuffer_consume(buf, n)
           ELSE /\ Return(Err(r.e))
                /\ UNCHANGED << download_loop, wait, dev, session, buf >>
                /\ NoIssue
    /\ UNCHANGED << inputs, seen, offset, start, control >>

\* wait_status!: get_status::Step::Break(cmd) => break cmd
AsyncWaitBreak ==
    /\ pc = "wait"
    /\ WaitState_next(wait, descriptor).step = "Break"
    /\ wait' = None
    /\ session' = NoSession
    /\ pc' = "loop"
    /\ UNCHANGED << inputs, seen, offset, buf, start, control, download_loop, result,
                    dev >>
    /\ NoIssue

\* wait_status!: get_status::Step::Wait(cmd, poll_timeout) => self.io.sleep(poll_timeout).await,
\* GETSTATUS, WaitState::chain on the reply.  (The macro has no arm for
\* Step::ManifestWaitReset: the shell has no step to take on it.)
AsyncWaitPoll ==
    /\ pc = "wait"
    /\ WaitState_next(wait, descriptor).step = "Wait"
    /\ \E rep \in DeviceGetStatus(dev, descriptor, descriptor.transfer_size) :
         LET m == GetStatusRecv_chain(rep.bytes)
         IN  /\ Issue(GetStatus_get_status(descriptor.transfer_size))
             /\ dev' = rep.dev
             /\ seen' = Seen(rep.bytes, m, FALSE)
             /\ session' =
                  [polls |-> Min(session.polls + 1, 2),
                   slept |-> Some(WaitState_next(wait, descriptor).poll_timeout),
                   prev_timeout |-> session.reply_timeout,
                   reply_timeout |->
                     IF Len(rep.bytes) < 4 THEN None
                     ELSE Some(get_uint_le3(rep.bytes[2], rep.bytes[3], rep.bytes[4]))]
             /\ IF m.ok
                THEN wait' = WaitState_chain(wait, m.v) /\ UNCHANGED << pc, result >>
                ELSE Return(Err(m.e)) /\ UNCHANGED wait
    /\ UNCHANGED << inputs, offset, buf, start, control, download_loop >>

AsyncNext ==
    \/ AsyncDownload
    \/ AsyncFillBuf
    \/ AsyncEarlyReturn
    \/ AsyncDfuDownload
    \/ AsyncPrerollGetStatus
    \/ AsyncClearStatus
    \/ AsyncStartGetStatus
    \/ AsyncStepBreak
    \/ AsyncStepUsbReset
    \/ AsyncStepErase
    \/ AsyncStepSetAddress
    \/ AsyncStepDownloadChunk
    \/ AsyncDownloadChunk
    \/ AsyncWaitBreak
    \/ AsyncWaitPoll

\* Either shell takes the next step of the download.
NextShells == Next \/ AsyncNext
SpecShells == Init /\ [][NextShells]_vars

(***************************************************************************)
(* C24.  Shell equivalence: from every state of a download, for the same   *)
(* descriptor, protocol, stream and device behaviour, the step of the      *)
(* asynchronous shell and the step of the synchronous shell are the same:  *)
(* the same transfer or USB reset issued, the same sleep, the same reader  *)
(* and pipeline state after it and the same result.                        *)
(***************************************************************************)
C24_ShellEquivalence == [][ AsyncNext <=> Next ]_vars

\* A download of more than one transfer has ended with its USB reset.
C24_Witness ==
    /\ Succeeded
    /\ Len(data) > descriptor.transfer_size
    /\ counts.usb_reset = 1
    /\ Payloads(NonEmptyDataDnloads) = data

(***************************************************************************)
(* functional_descriptor.rs, FunctionalDescriptor::from_bytes.  `bytes` is *)
(* read as the code reads it, from the front: advance(1), get_u8,          *)
(* get_u16_le.  The result is None, Some(Err(e)) or Some(Ok(descriptor)).  *)
(***************************************************************************)
DataTooShort(len) == [error |-> "DataTooShort", len |-> len]

\* Buf::get_u16_le on the bytes left
get_u16_le(bytes) == bytes[1] + 256 * bytes[2]

\* `attributes & (1 << bit) > 0`
bit_set(attributes, bit) == (attributes \div (2 ^ bit)) % 2 = 1

\* A from_bytes that looks at the length before the descriptor type.
FunctionalDescriptor_from_bytes_length_first(bytes) ==
    LET len == Len(bytes)
    IN  IF len < 9
        THEN Some(Err(DataTooShort(len)))
        ELSE IF bytes[2] # 33
        THEN None
        ELSE LET attributes == bytes[3]
             IN  Some(Ok([can_download |-> bit_set(attributes, 0),
                          can_upload |-> bit_set(attributes, 1),
                          manifestation_tolerant |-> bit_set(attributes, 2),
                          will_detach |-> bit_set(attributes, 3),
                          detach_timeout |-> get_u16_le(SubSeq(bytes, 4, 5)),
                          transfer_size |-> get_u16_le(SubSeq(bytes, 6, 7)),
                          dfu_version |-> << bytes[9], bytes[8] >>]))

FunctionalDescriptor_from_bytes(bytes) ==
    LET len == Len(bytes)
    IN  IF len < 2
        THEN None
        ELSE LET after_advance == Tail(bytes)
                 descriptor_type == Head(after_advance)
                 rest == Tail(after_advance)
             IN  IF descriptor_type # 33
                 THEN None
                 ELSE IF len < 9
                 THEN Some(Err(DataTooShort(len)))
                 ELSE LET attributes == Head(rest)
                          rest1 == Tail(rest)
                          detach_timeout == get_u16_le(rest1)
                          rest2 == Tail(Tail(rest1))
                          transfer_size == get_u16_le(rest2)
                          rest3 == Tail(Tail(rest2))
                          minor == Head(rest3)
                          major == Head(Tail(rest3))
                      IN  Some(Ok([can_download |-> bit_set(attributes, 0),
                                   can_upload |-> bit_set(attributes, 1),
                                   manifestation_tolerant |-> bit_set(attributes, 2),
                                   will_detach |-> bit_set(attributes, 3),
                                   detach_timeout |-> detach_timeout,
                                   transfer_size |-> transfer_size,
                                   dfu_version |-> << major, minor >>]))

\* The byte blocks parsed: every prefix of blocks of up to MaxBlock bytes
\* whose type is 0x21 or not, with every combination of the low attribute
\* bits and some higher ones, and several timeouts, sizes and versions.
MaxBlock == 10

DescriptorBlocks ==
    { [i \in 1..n |->
          IF i <= 9 THEN << 9, ty, at, dt[1], dt[2], ts[1], ts[2], v[1], v[2] >>[i]
          ELSE 7] :
        ty \in {33, 34},
        at \in (0..15) \cup {16, 255},
        dt \in { << 0, 0 >>, << 232, 3 >>, << 255, 255 >> },
        ts \in { << 6, 0 >>, << 0, 8 >> },
        v \in { << 16, 1 >>, << 0, 1 >> },
        n \in 0..MaxBlock }

InitFromBytes ==
    /\ buf \in DescriptorBlocks
    /\ pc = "from_bytes"
    /\ descriptor = [manifestation_tolerant |-> FALSE, will_detach |-> FALSE,
                     transfer_size |-> 6]
    /\ protocol = ProtocolDfu
    /\ override_address = None
    /\ data = <<>>
    /\ length = 0
    /\ offset = 0
    /\ start = None
    /\ control = None
    /\ download_loop = None
    /\ wait = None
    /\ result = None
    /\ dev = DeviceInit(DfuIdle)
    /\ dnloads = <<>>
    /\ head = <<>>
    /\ last = None
    /\ counts = [clr_status |-> 0, usb_reset |-> 0]
    /\ session = NoSession
    /\ seen = NoneSeen

\* FunctionalDescriptor::from_bytes(bytes) is called.
FromBytes ==
    /\ pc = "from_bytes"
    /\ result' = FunctionalDescriptor_from_bytes(buf)
    /\ pc' = "parsed"
    /\ UNCHANGED << inputs, seen, offset, buf, start, control, download_loop, wait,
                    dev, session >>
    /\ NoIssue

(***************************************************************************)
(* memory_layout.rs, TryFrom<&str> for MemoryLayout.  A string is the      *)
(* sequence of its characters.                                             *)
(***************************************************************************)
InvalidPageFormat(str) == [error |-> "InvalidPageFormat", str |-> str]
ParseErrorPageCount(str) == [error |-> "ParseErrorPageCount", str |-> str]
ParseErrorPageSize(str) == [error |-> "ParseErrorPageSize", str |-> str]
InvalidPrefix(str) == [error |-> "InvalidPrefix", str |-> str]

Digits == << "0", "1", "2", "3", "4", "5", "6", "7", "8", "9" >>
IsDigit(c) == \E i \in 1..10 : Digits[i] = c
DigitValue(c) == (CHOOSE i \in 1..10 : Digits[i] = c) - 1

\* The position of the first `c` in str, 0 when there is none.
find(str, c) ==
    IF \E i \in 1..Len(str) : str[i] = c
    THEN CHOOSE i \in 1..Len(str) : str[i] = c /\ \A j \in 1..(i - 1) : str[j] # c
    ELSE 0

\* str::split(c): the pieces between the separators, at least one.
RECURSIVE split(_, _)
split(str, c) ==
    LET i == find(str, c)
    IN  IF i = 0
        THEN << str >>
        ELSE << SubSeq(str, 1, i - 1) >> \o split(SubSeq(str, i + 1, Len(str)), c)

\* u32::from_str on digits read left to right; Err on an empty string, a
\* character that is no digit, or a value past the largest one.
RECURSIVE from_str_digits(_, _)
from_str_digits(acc, str) ==
    IF str = <<>>
    THEN Ok(acc)
    ELSE IF ~IsDigit(Head(str))
    THEN Err("InvalidDigit")
    ELSE LET d == DigitValue(Head(str))
         IN  IF acc > (U32_MAX - d) \div 10
             THEN Err("PosOverflow")
             ELSE from_str_digits(acc * 10 + d, Tail(str))

\* u32::from_str: an optional leading '+', then at least one digit.
u32_from_str(str) ==
    LET digits == IF str # <<>> /\ Head(str) = "+" THEN Tail(str) ELSE str
    IN  IF digits = <<>> THEN Err("Empty") ELSE from_str_digits(0, digits)

\* `size * prefix` on u32, prefix being 2^shift: with overflow checks the
\* multiplication panics when the product needs more than 32 bits, without
\* them it keeps the low 32 bits.
mul_u32(size, shift) ==
    IF shift = 0 \/ size < 2 ^ (32 - shift)
    THEN { Ok(size * 2 ^ shift) }
    ELSE { Err("Panic"), Ok((size % 2 ^ (32 - shift)) * 2 ^ shift) }

\* One entry `s` of the string: the results it can give, each the pages of
\* the entry or the error the function returns with.
MemoryLayout_entry(s) ==
    LET star == find(s, "*")
        count == SubSeq(s, 1, star - 1)
        size_prefix == SubSeq(s, star + 1, Len(s))
        size == SubSeq(size_prefix, 1, Len(size_prefix) - 2)
        prefix == SubSeq(size_prefix, Len(size_prefix) - 1, Len(size_prefix))
        c == u32_from_str(count)
        z == u32_from_str(size)
        shift == CASE prefix[1] = "K" -> 10
                   [] prefix[1] = "M" -> 20
                   [] prefix[1] = " " -> 0
                   [] OTHER -> -1
    IN  IF star = 0 THEN { Err(InvalidPageFormat(s)) }
        ELSE IF Len(size_prefix) < 2 THEN { Err(ParseErrorPageSize(size_prefix)) }
        ELSE IF ~c.ok THEN { Err(ParseErrorPageCount(count)) }
        ELSE IF ~z.ok THEN { Err(ParseErrorPageSize(size)) }
        ELSE IF shift = -1 THEN { Err(InvalidPrefix(<< prefix[1] >>)) }
        ELSE { IF product.ok THEN Ok([i \in 1..c.v |-> product.v]) ELSE product :
                 product \in mul_u32(z.v, shift) }

\* The loop over the entries: the first failing entry ends it.
RECURSIVE MemoryLayout_entries(_, _)
MemoryLayout_entries(pages, entries) ==
    IF entries = <<>>
    THEN { Ok(pages) }
    ELSE UNION { IF e.ok
                 THEN MemoryLayout_entries(pages \o e.v, Tail(entries))
                 ELSE { e } :
                 e \in MemoryLayout_entry(Head(entries)) }

MemoryLayout_try_from(src) == MemoryLayout_entries(<<>>, split(src, ","))

\* The layout strings parsed.  An entry is a count, a size and a unit; it is
\* written with the count on at least count_width digits and the size on at
\* least size_width digits, zeros in front.
RECURSIVE decimal(_)
decimal(n) == IF n < 10 THEN << Digits[n + 1] >> ELSE decimal(n \div 10) \o << Digits[(n % 10) + 1] >>

RECURSIVE zero_padded(_, _)
zero_padded(str, width) == IF Len(str) >= width THEN str ELSE zero_padded(<< "0" >> \o str, width)

LayoutEntries ==
    [count : {1, 4, 7}, size : {4, 32, 128, 4096}, unit : {" ", "K", "M"},
     padded : BOOLEAN]

EntryString(e) ==
    zero_padded(decimal(e.count), IF e.padded THEN 2 ELSE 1) \o << "*" >>
        \o zero_padded(decimal(e.size), IF e.padded THEN 3 ELSE 1) \o << e.unit, "g" >>

RECURSIVE LayoutString(_)
LayoutString(entries) ==
    IF Len(entries) = 1
    THEN EntryString(entries[1])
    ELSE EntryString(entries[1]) \o << "," >> \o LayoutString(Tail(entries))

\* "04*032Kg,01*128Kg,07*256Kg" of the `parsing` test
ParsingTest ==
    << [count |-> 4, size |-> 32, unit |-> "K", padded |-> TRUE],
       [count |-> 1, size |-> 128, unit |-> "K", padded |-> TRUE],
       [count |-> 7, size |-> 256, unit |-> "K", padded |-> TRUE] >>

MaxEntries == 2

Layouts ==
    { ParsingTest } \cup UNION { [1..n -> LayoutEntries] : n \in 1..MaxEntries }

\* Strings outside the grammar, one for each error of the parser.
Malformed ==
    { << "4" >>, << "4", "*", "K" >>, << "*", "3", "2", "K", "g" >>,
      << "4", "*", "K", "g" >>, << "4", "*", "3", "2", "k", "g" >> }

InitTryFrom ==
    /\ \/ \E l \in Layouts : data = l /\ buf = LayoutString(l)
       \/ data = <<>> /\ buf \in Malformed
    /\ pc = "try_from"
    /\ descriptor = [manifestation_tolerant |-> FALSE, will_detach |-> FALSE,
                     transfer_size |-> 6]
    /\ protocol = ProtocolDfu
    /\ override_address = None
    /\ length = 0
    /\ offset = 0
    /\ start = None
    /\ control = None
    /\ download_loop = None
    /\ wait = None
    /\ result = None
    /\ dev = DeviceInit(DfuIdle)
    /\ dnloads = <<>>
    /\ head = <<>>
    /\ last = None
    /\ counts = [clr_status |-> 0, usb_reset |-> 0]
    /\ session = NoSession
    /\ seen = NoneSeen

\* MemoryLayout::try_from(src) is called.
TryFrom ==
    /\ pc = "try_from"
    /\ result' \in MemoryLayout_try_from(buf)
    /\ pc' = "layout"
    /\ UNCHANGED << inputs, seen, offset, buf, start, control, download_loop, wait,
                    dev, session >>
    /\ NoIssue

InitParse == InitFromBytes \/ InitTryFrom
NextParse == FromBytes \/ TryFrom
SpecParse == InitParse /\ [][NextParse]_vars

(***************************************************************************)
(* C25.  Functional-descriptor parsing, for every byte block: a length     *)
(* under 2 gives "not present"; otherwise a second byte other than 0x21    *)
(* gives "not present", also when the block is shorter than 9 bytes;       *)
(* otherwise a length under 9 gives DataTooShort(length); otherwise        *)
(* parsing succeeds with bits 0..3 of the third byte as can_download,      *)
(* can_upload, manifestation_tolerant, will_detach, detach_timeout the     *)
(* little-endian 16 bits of bytes 4-5, transfer_size those of bytes 6-7,   *)
(* and dfu_version (byte 9, byte 8) (bytes counted from 1).                *)
(***************************************************************************)
C25_FromBytes ==
    pc = "parsed" =>
        LET n == Len(buf)
        IN  CASE n < 2 -> result = None
              [] n >= 2 /\ buf[2] # 33 -> result = None
              [] n >= 2 /\ buf[2] = 33 /\ n < 9 ->
                   result = Some(Err(DataTooShort(n)))
              [] OTHER ->
                   /\ result # None /\ result[1].ok
                   /\ LET d == result[1].v
                      IN  /\ d.can_download = (buf[3] % 2 = 1)
                          /\ d.can_upload = ((buf[3] \div 2) % 2 = 1)
                          /\ d.manifestation_tolerant = ((buf[3] \div 4) % 2 = 1)
                          /\ d.will_detach = ((buf[3] \div 8) % 2 = 1)
                          /\ d.detach_timeout = buf[4] + 256 * buf[5]
                          /\ d.transfer_size = buf[6] + 256 * buf[7]
                          /\ d.dfu_version = << buf[9], buf[8] >>

\* A block of type 0x21 and 10 bytes has been parsed: detach timeout 1000,
\* transfer size 2048, version (1, 16), manifestation tolerant only.
C25_Witness ==
    /\ pc = "parsed"
    /\ Len(buf) = 10
    /\ result # None /\ result[1].ok
    /\ result[1].v.detach_timeout = 1000
    /\ result[1].v.transfer_size = 2048
    /\ result[1].v.dfu_version = << 1, 16 >>
    /\ result[1].v.manifestation_tolerant /\ ~result[1].v.will_detach

(***************************************************************************)
(* C26.  Memory-layout parsing: for every layout string of the grammar     *)
(* (comma-separated <count>*<size><unit>g, zero-padded or not) the parsed  *)
(* layout is the concatenation, in entry order, of COUNT pages of          *)
(* SIZE x multiplier bytes per entry, multiplier 1 for ' ', 1024 for 'K',  *)
(* 1048576 for 'M', the product being the exact arithmetic value.  A page  *)
(* p is that product exactly when p is a multiple of the multiplier and    *)
(* p divided by the multiplier is SIZE.                                    *)
(***************************************************************************)
Multiplier(unit) == CASE unit = " " -> 1 [] unit = "K" -> 1024 [] unit = "M" -> 1048576

RECURSIVE EntryOfPage(_, _)
\* the entry that page number i (from 1) of the layout belongs to, 0 when past the end
EntryOfPage(entries, i) ==
    IF entries = <<>> THEN 0
    ELSE IF i <= entries[1].count THEN 1
    ELSE LET r == EntryOfPage(Tail(entries), i - entries[1].count)
         IN  IF r = 0 THEN 0 ELSE r + 1

RECURSIVE PageCount(_)
PageCount(entries) == IF entries = <<>> THEN 0 ELSE entries[1].count + PageCount(Tail(entries))

IsExpansion(pages, entries) ==
    /\ Len(pages) = PageCount(entries)
    /\ \A i \in 1..Len(pages) :
          LET e == entries[EntryOfPage(entries, i)]
          IN  /\ pages[i] % Multiplier(e.unit) = 0
              /\ pages[i] \div Multiplier(e.unit) = e.size

C26_LayoutParsing ==
    (pc = "layout" /\ data # <<>>) => (result.ok /\ IsExpansion(result.v, data))

(***************************************************************************)
(* DownloadLoop::next on its own: every combination of the fields it reads *)
(* (eof, the protocol data, erased_pos against end_pos, address_set), for  *)
(* every functional descriptor.  The step it returns is kept in `result`.  *)
(***************************************************************************)
NextLoops ==
    { [protocol |-> p, end_pos |-> e, copied_pos |-> 0, block_num |-> b, eof |-> f] :
        p \in { [kind |-> "Dfu"] } \cup
              [kind : {"Dfuse"}, address : {0}, erased_pos : {0, 4, 8},
               address_set : BOOLEAN, memory_layout : { <<>>, << 4 >> }],
        e \in {0, 4, 8},
        b \in {0, 2},
        f \in BOOLEAN }

InitNext ==
    /\ descriptor \in FunctionalDescriptors
    /\ download_loop \in NextLoops
    /\ protocol = IF download_loop.protocol.kind = "Dfu" THEN ProtocolDfu
                  ELSE ProtocolDfuse(0, << 4, 4 >>)
    /\ override_address = None
    /\ pc = "next"
    /\ buf = <<>>
    /\ data = <<>>
    /\ length = 0
    /\ offset = 0
    /\ start = None
    /\ control = None
    /\ wait = None
    /\ result = None
    /\ dev = DeviceInit(DfuDnloadIdle)
    /\ dnloads = <<>>
    /\ head = <<>>
    /\ last = None
    /\ counts = [clr_status |-> 0, usb_reset |-> 0]
    /\ session = NoSession
    /\ seen = NoneSeen

\* download_loop.next() is called.
CallNext ==
    /\ pc = "next"
    /\ result' = Some(DownloadLoop_next(download_loop, descriptor))
    /\ pc' = "stepped"
    /\ UNCHANGED << inputs, seen, offset, buf, start, control, download_loop, wait,
                    dev, session >>
    /\ NoIssue

NextNext == CallNext

SpecNext == InitNext /\ [][NextNext]_vars

(***************************************************************************)
(* C27.  The decision table of DownloadLoop::next, by priority: UsbReset   *)
(* when eof and the device is neither manifestation tolerant nor detaches  *)
(* by itself; Break when eof otherwise; Erase when the protocol is DfuSe   *)
(* and erased_pos < end_pos; SetAddress when it is DfuSe and the address   *)
(* is not set; DownloadChunk otherwise.  Plain DFU never gives Erase or    *)
(* SetAddress, and eof overrides a pending erase.                          *)
(***************************************************************************)
PendingErase ==
    download_loop.protocol.kind = "Dfuse"
        /\ download_loop.protocol.erased_pos < download_loop.end_pos

PendingAddress ==
    download_loop.protocol.kind = "Dfuse" /\ ~download_loop.protocol.address_set

C27_DecisionTable ==
    pc = "stepped" =>
        LET step == result[1]
            reset == ~descriptor.manifestation_tolerant /\ ~descriptor.will_detach
        IN  /\ (download_loop.eof /\ reset) => step = "UsbReset"
            /\ (download_loop.eof /\ ~reset) => step = "Break"
            /\ (~download_loop.eof /\ PendingErase) => step = "Erase"
            /\ (~download_loop.eof /\ ~PendingErase /\ PendingAddress) =>
                  step = "SetAddress"
            /\ (~download_loop.eof /\ ~PendingErase /\ ~PendingAddress) =>
                  step = "DownloadChunk"
            /\ download_loop.protocol.kind = "Dfu" => step \notin {"Erase", "SetAddress"}
            /\ (download_loop.eof /\ PendingErase) => step \in {"UsbReset", "Break"}

\* next() was called at eof with an erase pending and the address not set.
C27_Witness ==
    /\ pc = "stepped"
    /\ download_loop.eof /\ PendingErase /\ PendingAddress
    /\ result = Some("Break")

(***************************************************************************)
(* C28.  After the zero-length DNLOAD the engine waits for DfuIdle when    *)
(* the device is manifestation tolerant, polling on while the replies say  *)
(* DfuManifest, and for DfuManifest when it is not.  From then on no       *)
(* DNLOAD of any kind is issued: what follows is GETSTATUS polls and at    *)
(* most one USB reset; the reset, when issued, is the last command, and    *)
(* the poll before it reported DfuManifest.                                *)
(***************************************************************************)
ZeroSent == ZeroLengthDnloads # {}

IsUsbReset(c) == c.op = "usb_reset"

ManifestTarget == IF descriptor.manifestation_tolerant THEN DfuIdle ELSE DfuManifest

\* What holds of a state after the zero-length DNLOAD.
AfterZeroLength ==
    /\ wait # None =>
          /\ wait.state = ManifestTarget
          /\ (descriptor.manifestation_tolerant /\ session.polls >= 1
                /\ seen.state = Some(DfuManifest) /\ pc = "wait") =>
                WaitState_next(wait, descriptor) = [step |-> "Wait",
                                                    poll_timeout |-> wait.poll_timeout]
    /\ last[1] = dnloads[Len(dnloads)] \/ IsGetStatus(last[1]) \/ IsUsbReset(last[1])
    /\ counts.usb_reset <= 1
    /\ counts.usb_reset = 1 => IsUsbReset(last[1]) /\ pc = "done"

C28_Manifestation ==
    [][ /\ ZeroSent' => AfterZeroLength'
        /\ ZeroSent => dnloads' = dnloads
        /\ counts.usb_reset = 1 => UNCHANGED << head, last, dnloads, counts >>
        /\ counts'.usb_reset > counts.usb_reset =>
              /\ ZeroSent
              /\ IsGetStatus(last[1])
              /\ seen.state = Some(DfuManifest)
      ]_vars

\* A download to a device that neither tolerates manifestation nor detaches
\* has returned Ok after the reset.
C28_Witness ==
    /\ Succeeded
    /\ ZeroSent
    /\ counts.usb_reset = 1
    /\ data # <<>>

(***************************************************************************)
(* C29.  Erase addressing, in a DfuSe download of a non-empty stream       *)
(* starting at address a with layout p1, p2, ...: the i-th ERASE carries   *)
(* a + p1 + ... + p(i-1); the pages are consumed left to right, one per    *)
(* ERASE; and when the layout is large enough, a download that got past    *)
(* its erases has issued k of them, k the least number with                *)
(* p1 + ... + pk >= length.                                                *)
(***************************************************************************)
IsEraseCommand(c) == IsCommandBlock(c) /\ IsErase(c)
IsSetAddressCommand(c) == IsCommandBlock(c) /\ IsSetAddress(c)
Erases == SelectSeq(dnloads, IsEraseCommand)
SetAddresses == SelectSeq(dnloads, IsSetAddressCommand)

\* p1 + ... + pk
RECURSIVE PageSum(_, _)
PageSum(layout, k) == IF k = 0 THEN 0 ELSE layout[k] + PageSum(layout, k - 1)

LayoutLargeEnough ==
    PageSum(protocol.memory_layout, Len(protocol.memory_layout)) >= length

LeastPages ==
    CHOOSE k \in 0..Len(protocol.memory_layout) :
        /\ PageSum(protocol.memory_layout, k) >= length
        /\ \A j \in 0..(k - 1) : PageSum(protocol.memory_layout, j) < length

C29_EraseAddressing ==
    (protocol.kind = "Dfuse" /\ data # <<>>) =>
        /\ \A i \in 1..Len(Erases) :
              Erases[i].data =
                DownloadCommandErase(StartAddress + PageSum(protocol.memory_layout, i - 1))
        /\ Len(Erases) <= Len(protocol.memory_layout)
        /\ download_loop # None =>
              download_loop.protocol.memory_layout =
                SubSeq(protocol.memory_layout, Len(Erases) + 1,
                       Len(protocol.memory_layout))
        /\ (LayoutLargeEnough /\ (SetAddresses # <<>> \/ Succeeded)) =>
              Len(Erases) = LeastPages

\* 13 bytes have been downloaded to the overridden address 16 of a layout of
\* pages of 4, 4, 8, 8 bytes: three ERASEs, the last of address 24.
C29_Witness ==
    /\ Succeeded
    /\ protocol.kind = "Dfuse"
    /\ override_address = Some(16)
    /\ length = 13
    /\ Len(data) = 13
    /\ Len(Erases) = 3
    /\ Erases[3].data = << 65, 24, 0, 0, 0 >>

(***************************************************************************)
(* C30.  When the memory layout is exhausted while erased_pos < end_pos    *)
(* (the firmware is longer than the pages of the layout together), the     *)
(* Erase step fails with NoSpaceLeft and issues no ERASE of its own, and   *)
(* by then no firmware data DNLOAD and no SET_ADDRESS has been issued.     *)
(***************************************************************************)
LayoutExhausted ==
    /\ pc = "loop"
    /\ download_loop.protocol.kind = "Dfuse"
    /\ download_loop.protocol.memory_layout = <<>>
    /\ download_loop.protocol.erased_pos < download_loop.end_pos

\* download has returned NoSpaceLeft from the loop (and not from
\* DfuSansIo::download, which returns it for address + length past u32).
NoSpaceLeftInLoop ==
    /\ pc = "done"
    /\ result = Err(Error("NoSpaceLeft"))
    /\ download_loop # None

C30_NoSpaceLeft ==
    [][ /\ LayoutExhausted =>
              /\ NoSpaceLeftInLoop'
              /\ UNCHANGED << head, last, dnloads, counts, dev >>
        /\ NoSpaceLeftInLoop' =>
              /\ LayoutExhausted
              /\ Len(dnloads') = Len(protocol.memory_layout)
              /\ \A i \in 1..Len(dnloads') : IsEraseCommand(dnloads'[i])
              /\ SetAddresses' = <<>>
              /\ DataDnloads' = <<>>
      ]_vars

\* 13 bytes for a layout of two pages of 4: download has returned
\* NoSpaceLeft after two ERASEs.
C30_Witness ==
    /\ NoSpaceLeftInLoop
    /\ protocol.memory_layout = << 4, 4 >>
    /\ length = 13
    /\ Len(Erases) = 2
    /\ IsGetStatus(last[1])

(***************************************************************************)
(* C31.  When erased_pos + p is past the largest u32 for the head page     *)
(* size p, the Erase step fails with EraseLimitReached and issues no       *)
(* ERASE (erased_pos never wraps), also when end_pos fits in u32 and the   *)
(* page would cover what is left of the firmware.                          *)
(***************************************************************************)
ErasePastLimit ==
    /\ pc = "loop"
    /\ download_loop.protocol.kind = "Dfuse"
    /\ ~download_loop.eof
    /\ download_loop.protocol.erased_pos < download_loop.end_pos
    /\ download_loop.protocol.memory_layout # <<>>
    /\ Head(download_loop.protocol.memory_layout)
         > U32_MAX - download_loop.protocol.erased_pos

EraseLimitReached == pc = "done" /\ result = Err(Error("EraseLimitReached"))

C31_EraseLimit ==
    [][ /\ ErasePastLimit =>
              /\ EraseLimitReached'
              /\ UNCHANGED << head, last, dnloads, counts, dev, download_loop >>
        /\ EraseLimitReached' => ErasePastLimit
        /\ (download_loop' # None /\ download_loop'.protocol.kind = "Dfuse") =>
              download_loop'.protocol.erased_pos >= StartAddress
      ]_vars

\* 2 bytes for the last 3 bytes of the address space, pages of 4 bytes:
\* end_pos fits, the first page would cover the firmware, and download has
\* returned EraseLimitReached with no DNLOAD issued.
C31_Witness ==
    /\ EraseLimitReached
    /\ StartAddress = U32_MAX - 2
    /\ length = 2
    /\ download_loop.end_pos = U32_MAX
    /\ Head(download_loop.protocol.memory_layout) >= length
    /\ dnloads = <<>>

(***************************************************************************)
(* C32.  In every DfuSe download that sends firmware data exactly one      *)
(* SET_ADDRESS is issued; it carries the start address (the override, or   *)
(* the descriptor's); it comes after the last ERASE, once the wait that    *)
(* follows that ERASE has ended, and before the first data DNLOAD; and the *)
(* wait that follows it (for DfuDnloadIdle, through DfuDnbusy) has ended   *)
(* when the first data DNLOAD is issued.                                   *)
(***************************************************************************)
\* The DNLOAD history is the ERASEs, then one SET_ADDRESS, then data.
ErasesAddressData ==
    /\ Len(SetAddresses) = 1
    /\ SetAddresses[1].data = DownloadCommandSetAddress(StartAddress)
    /\ IsSetAddressCommand(dnloads[Len(Erases) + 1])
    /\ \A i \in 1..Len(dnloads) :
          /\ i <= Len(Erases) => IsEraseCommand(dnloads[i])
          /\ i > Len(Erases) + 1 => IsDataDnload(dnloads[i])

\* The wait after the DNLOAD before has ended on a reply of DfuDnloadIdle.
WaitEnded ==
    /\ wait = None
    /\ pc \in {"loop", "chunk"}
    /\ IsGetStatus(last[1])
    /\ seen.state = Some(DfuDnloadIdle)

C32_SetAddress ==
    [][ protocol.kind = "Dfuse" =>
          /\ NonEmptyDataDnloads' # <<>> => ErasesAddressData'
          /\ SetAddresses' # SetAddresses =>
                /\ SetAddresses' = << Dnload(0, DownloadCommandSetAddress(StartAddress)) >>
                /\ Erases # <<>> => WaitEnded
                /\ DataDnloads = <<>>
                /\ pc' = "wait"
                /\ wait' = WaitState_new(DfuDnbusy, DfuDnloadIdle)
          /\ (DataDnloads = <<>> /\ DataDnloads' # <<>>) =>
                /\ SetAddresses # <<>>
                /\ WaitEnded
      ]_vars

\* 13 bytes have been downloaded to the overridden address 16: three
\* ERASEs, the SET_ADDRESS of 16, then the data.
C32_Witness ==
    /\ Succeeded
    /\ protocol.kind = "Dfuse"
    /\ override_address = Some(16)
    /\ Len(Erases) = 3
    /\ dnloads[4].data = << 33, 16, 0, 0, 0 >>
    /\ Len(NonEmptyDataDnloads) >= 2

(***************************************************************************)
(* C33.  In a DfuSe download address_set is false in the engine state      *)
(* right after every Erase step, and becomes true through a SetAddress     *)
(* step only; so no data DNLOAD is issued while address_set is false.      *)
(***************************************************************************)
AddressSet == download_loop # None /\ download_loop.protocol.address_set

C33_AddressSet ==
    [][ protocol.kind = "Dfuse" =>
          /\ Erases' # Erases => ~AddressSet'
          /\ (AddressSet' /\ ~AddressSet) => Len(SetAddresses') = Len(SetAddresses) + 1
          /\ DataDnloads' # DataDnloads => AddressSet
      ]_vars

\* A DfuSe download with ERASEs and data has returned Ok, the address set.
C33_Witness ==
    /\ Succeeded
    /\ protocol.kind = "Dfuse"
    /\ Erases # <<>>
    /\ NonEmptyDataDnloads # <<>>
    /\ AddressSet

(***************************************************************************)
(* C34.  DownloadChunk overflow: when copied_pos + len is past the largest *)
(* u32 the step fails with MaximumTransferSizeExceeded, and when block_num *)
(* is 65535 it fails with MaximumChunksExceeded (the position is looked at *)
(* first when both hold); in both cases the DNLOAD of the chunk is not     *)
(* issued and the counters do not wrap, so no DNLOAD has wValue 65535.     *)
(***************************************************************************)
ChunkLen == Min(Len(buf), descriptor.transfer_size)
PositionOverflows == ChunkLen > U32_MAX - download_loop.copied_pos
BlockOverflows == download_loop.block_num = 65535

ChunkRefused(name) ==
    /\ pc' = "done"
    /\ result' = Err(Error(name))
    /\ UNCHANGED << head, last, dnloads, counts, dev, download_loop, wait >>

LE32(addr) ==
    << addr % 256, (addr \div 256) % 256, (addr \div 65536) % 256,
       (addr \div 16777216) % 256 >>

\* The step issued the one DNLOAD `command` and nothing else.
OneCommand(command, addr) ==
    /\ dnloads' = Append(dnloads, last'[1])
    /\ last'[1].op = "write_control"
    /\ last'[1].request = DFU_DNLOAD
    /\ last'[1].value = 0
    /\ Len(last'[1].data) = 5
    /\ last'[1].data = << command >> \o LE32(addr)
    /\ counts' = counts

C35_CommandSteps ==
    [][ protocol.kind = "Dfuse" =>
          /\ Erases' # Erases =>
                /\ OneCommand(65, download_loop.protocol.erased_pos)
                /\ download_loop' =
                     [download_loop EXCEPT
                        !.protocol.erased_pos = @ + Head(download_loop.protocol.memory_layout),
                        !.protocol.memory_layout = Tail(@)]
          /\ SetAddresses' # SetAddresses =>
                /\ OneCommand(33, download_loop.copied_pos)
                /\ download_loop' = [download_loop EXCEPT !.protocol.address_set = TRUE]
      ]_vars

\* A download to address 8 has returned Ok after two ERASEs and a
\* SET_ADDRESS, the data blocks numbered from 2.
C35_Witness ==
    /\ Succeeded
    /\ protocol.kind = "Dfuse"
    /\ StartAddress = 8
    /\ Len(Erases) = 2
    /\ Len(SetAddresses) = 1
    /\ dnloads[4].value = 2

(***************************************************************************)
(* sync.rs, DfuSync::download with an io and a reader that may fail: every *)
(* `control.execute(&self.io)?`, `self.io.usb_reset()?` and                *)
(* `reader.fill_buf()?` returns the error it is handed.                    *)
(***************************************************************************)
\* The next statement of download runs an operation of the io.
IoOperationNext ==
    \/ pc \in {"preroll1", "clear"}
    \/ /\ pc = "loop"
       /\ \/ DownloadLoop_next(download_loop, descriptor) \in {"SetAddress", "UsbReset"}
          \/ /\ DownloadLoop_next(download_loop, descriptor) = "Erase"
             /\ ErasePage_erase(download_loop).ok
    \/ pc = "chunk" /\ DownloadChunk_download(download_loop, buf, descriptor).ok
    \/ pc = "wait" /\ WaitState_next(wait, descriptor).step = "Wait"

\* read_control, write_control or usb_reset returns Err(e): `?` returns it.
\* Nothing reached the device; before a poll the shell has slept.
IoFails ==
    /\ IoOperationNext
    /\ Return(Err(Error("Io")))
    /\ session' = IF pc = "wait"
                  THEN [session EXCEPT
                          !.slept = Some(WaitState_next(wait, descriptor).poll_timeout)]
                  ELSE session
    /\ UNCHANGED << inputs, seen, offset, buf, start, control, download_loop, wait,
                    dev >>
    /\ NoIssue

\* The read of Buffer::fill_buf returns Err(e): `reader.fill_buf()?`.
ReadFails ==
    /\ pc \in {"fill_first", "fill_chunk"}
    /\ Len(buf) < descriptor.transfer_size
    /\ Return(Err(Error("Read")))
    /\ UNCHANGED << inputs, seen, offset, buf, start, control, download_loop, wait,
                    dev, session >>
    /\ NoIssue

NextFaulty == Next \/ IoFails \/ ReadFails

SpecFaulty == Init /\ [][NextFaulty]_vars

(***************************************************************************)
(* C36.  Errors are fatal: once a step of a download has returned an error *)
(* (of the engine, of the reader, or handed on from read_control,          *)
(* write_control or usb_reset), the shell issues no further control        *)
(* transfer, sleep or USB reset for that download and retries nothing.     *)
(***************************************************************************)
Failed == result # None /\ ~result.ok

C36_ErrorsFatal ==
    [][ /\ Failed' => pc' = "done"
        /\ Failed =>
              UNCHANGED << head, last, dnloads, counts, dev, session, seen, offset,
                           buf, download_loop, wait, result >>
      ]_vars

\* A GETSTATUS of a wait has failed after two DNLOADs, and download has
\* returned the error.
C36_Witness ==
    /\ pc = "done"
    /\ result = Err(Error("Io"))
    /\ wait # None
    /\ Len(dnloads) >= 2
    /\ IsGetStatus(last[1])

(***************************************************************************)
(* C37.  Between two consecutive DNLOADs of a download (data chunks or     *)
(* DfuSe commands) at least one GETSTATUS is issued and its reply taken: a *)
(* WaitState just created does not give Break before its first poll,       *)
(* whatever state the device is in.                                        *)
(***************************************************************************)
FreshWaitState == pc = "wait" /\ session.polls = 0

C37_PollBetweenDnloads ==
    [][ /\ FreshWaitState' =>
              WaitState_next(wait', descriptor).step = "Wait"
        /\ (dnloads' # dnloads /\ dnloads # <<>>) =>
              /\ IsGetStatus(last[1])
              /\ seen.len = Some(6)
              /\ wait = None
        /\ (dnloads' # dnloads) => FreshWaitState'
        /\ (FreshWaitState /\ pc' # "done") =>
              /\ session'.polls = 1
              /\ IsGetStatus(last'[1])
      ]_vars

\* The WaitState of the third DNLOAD has just been created.
C37_Witness ==
    /\ FreshWaitState
    /\ Len(dnloads) = 3
    /\ dnloads[3].data # <<>>
    /\ last = Some(dnloads[3])

(***************************************************************************)
(* C38.  When the firmware reader gives no byte at the very first read,    *)
(* download returns Ok without issuing any command (no GETSTATUS, no       *)
(* CLRSTATUS, no DNLOAD, no USB reset), whatever the declared length, the  *)
(* protocol and the descriptor, and without looking at address + length;   *)
(* in the synchronous shell and in the asynchronous one.                   *)
(***************************************************************************)
NothingIssued ==
    /\ head = <<>>
    /\ last = None
    /\ dnloads = <<>>
    /\ counts = [clr_status |-> 0, usb_reset |-> 0]
    /\ seen = NoneSeen
    /\ dev = DeviceInit(dev.state)

C38_EmptyStream ==
    data = <<>> =>
        /\ NothingIssued
        /\ start = None
        /\ pc \in {"idle", "fill_first", "download", "done"}
        /\ pc = "done" => result = Ok(<<>>)

\* download has returned Ok for an empty stream declared as 4 bytes at the
\* last 3 bytes of the address space, the device left in DfuError.
C38_Witness ==
    /\ pc = "done"
    /\ data = <<>>
    /\ length = 4
    /\ StartAddress = U32_MAX - 2
    /\ dev.state = DfuError
    /\ result = Ok(<<>>)

(***************************************************************************)
(* C39.  In every state of a download copied_pos <= end_pos: the engine    *)
(* sends no more firmware bytes than the declared length, so a stream      *)
(* longer than `length` causes no data DNLOAD past address + length.       *)
(***************************************************************************)
C39_CopiedWithinEnd ==
    download_loop # None => download_loop.copied_pos <= download_loop.end_pos

(***************************************************************************)
(* C40.  The first Wait step of every WaitState session carries a poll     *)
(* timeout of 0: the GETSTATUS after each DNLOAD is issued without a       *)
(* sleep, and the poll timeout of the last reply before the session (of    *)
(* the session before, or of the pre-roll) is not carried into it.         *)
(***************************************************************************)
C40_FirstPollTimeout ==
    [][ /\ FreshWaitState' =>
              WaitState_next(wait', descriptor) = [step |-> "Wait", poll_timeout |-> 0]
        /\ (FreshWaitState /\ session'.polls = 1) =>
              /\ session'.slept = Some(0)
              /\ IsGetStatus(last'[1])
      ]_vars

\* The WaitState of the second DNLOAD has been created after a reply that
\* asked for 10 ms, and its first step is a Wait of 0 ms.
C40_Witness ==
    /\ FreshWaitState
    /\ Len(dnloads) = 2
    /\ seen.poll_timeout = Some(10)
    /\ WaitState_next(wait, descriptor) = [step |-> "Wait", poll_timeout |-> 0]

====
